---- MODULE Spec2Model ----
(***************************************************************************)
(* A model of the tracking-and-metrics core of tactasports:                *)
(*   - HybridTracker (python/trackers/hybrid_tracker.py): two-stage        *)
(*     association, track creation, retirement and output gating;          *)
(*   - the pressing de-duplication, the pass detector, the velocity pass   *)
(*     and the analyze orchestrator of soccer_analysis_processor.py;       *)
(*   - HomographyTransform, and one analyzer serving analyze calls with    *)
(*     the frame loop of track_players (soccer_analysis_core.py,           *)
(*     soccer_analysis_processor.py, api.py);                              *)
(*   - get_db and the users table of tactabot.py.                          *)
(*                                                                         *)
(* Units.  Scores, appearance distances and IoU thresholds are in tenths   *)
(* (0.5 is 5).  Boxes are <<x1, y1, x2, y2>> on an integer pixel grid.     *)
(* A ratio is a pair <<numerator, denominator>> and is compared by cross   *)
(* multiplication, so no rounding enters the model.  Metres, seconds and   *)
(* metres per second of the analyzer are exact rationals <<n, d>> in       *)
(* lowest terms with d > 0.                                                *)
(***************************************************************************)
EXTENDS Integers, Sequences, FiniteSets, TLC

VARIABLES
    \* ---- HybridTracker ----
    frame_rate,     \* HybridTracker.frame_rate (constructor argument)
    tracks,         \* HybridTracker.tracks: sequence of Track records
    next_id,        \* HybridTracker.next_id
    ret,            \* the rows returned by the last update call
    calls,          \* number of update calls made so far
    last,           \* the last call's inputs and accepted matches (history)
    retired,        \* tracks dropped by the dead-track filter (history)
    smooth,         \* every call so far met the continuity hypothesis (history)
    \* ---- SoccerMatchAnalyzer._deduplicate_events ----
    events,         \* the list of raw PressingEvents handed in (sorted in place)
    unique,         \* the list returned
    dpc,            \* "idle", "raw" (before the call) or "done" (after it)
    \* ---- PassDetector.detect_passes ----
    order,          \* iteration order of the tracks mapping (sequence of player ids)
    potential_passes, \* PassDetector.potential_passes
    passes,         \* the PassEvents collected so far by detect_passes
    now,            \* timestamp (s) shared by the points of the current frame
    nframes,        \* frames of the loop processed so far
    plog,           \* candidates that left the active state in the last frame (history)
    pseen,          \* what the last frame's update loop saw of each active candidate (history)
    pstarts,        \* per candidate, the team labels of its two players at its start (history)
    ppc,            \* "idle", "loop" (inside detect_passes) or "done" (returned)
    \* ---- _compute_velocity / _compute_acceleration ----
    vcoords,        \* coords argument: sequence of <<x, y>> (metres)
    vtimes,         \* timestamps argument (seconds)
    vfps,           \* fps argument
    velocity,       \* array returned by _compute_velocity
    acceleration,   \* array returned by _compute_acceleration
    vpc,            \* "idle", "in", "vel" (velocity computed) or "acc"
    \* ---- SoccerMatchAnalyzer.analyze ----
    apc,            \* position inside analyze ("idle" when not called)
    a_fps,          \* metadata.fps
    a_raw,          \* the tracks as returned by track_players (history)
    a_tracks,       \* the local variable tracks
    a_stats,        \* the local variable stats
    a_events,       \* the local variable events (pressing)
    a_passes,       \* the local variable passes
    a_pots,         \* potential_passes of the PassDetector created by analyze
    a_pi,           \* frames of the detect_passes loop processed so far
    a_result,       \* the dictionary returned
    a_out,          \* "running", "returned", or "raised" (an exception left analyze)
    \* ---- HomographyTransform ----
    hm_str,         \* matrix_str, as the sequence of its comma-separated fields
    hm_obj,         \* the HomographyTransform built from it
    hm_point,       \* the last (x, y) handed to transform
    hm_out,         \* what transform returned for it
    hm_pc,          \* "idle", "new" (nothing built yet) or "built"
    \* ---- one SoccerMatchAnalyzer running analyze jobs (setup and track_players) ----
    j_frame_skip,   \* config.frame_skip
    j_homography,   \* self.homography: <<>> (None) or <<transform>>
    j_tracker,      \* the tracker the analyzer holds (sv_tracker / persisted YOLO tracker)
    j_jobs,         \* analyze calls started so far
    j_matrix,       \* homography_matrix argument: <<>> (None) or <<fields>>
    j_clips,        \* clips argument: <<>> (None) or a list of clip dictionaries
    j_unreadable,   \* frames of the video that cap.read() cannot deliver
    j_ranges,       \* processing_ranges
    j_ri,           \* index of the range being processed
    j_frame_idx,    \* frame_idx
    j_tracks,       \* tracks: the points appended so far, <<key, frame>>, in order
    j_processed,    \* frames handed to the tracker, in order (history)
    j_cap,          \* "none", "open" or "released"
    j_stop,         \* a stop has been requested for the running job
    j_req,          \* the last detect-players request: its input and the calibration used
    j_pc,           \* position of the analyzer
    \* ---- tactabot.py: get_db and the users table ----
    db_users,       \* rows of the users table
    db_last,        \* the last call made on the table, with the rows before it (history)
    db_ops,         \* calls made so far
    db_conn,        \* the connection of the current with-block: "none", "open", "closed"
    db_where,       \* "idle", "outside" or "inside" the with-block
    db_exit,        \* how the last with-block was left: "none", "normal", "exception"
    db_after,       \* outcome of the last operation tried on the connection after the block
    \* ---- PassingNetworkAnalyzer ----
    nw_passes,      \* the team's passes handed to analyze_network: <<passer_id, receiver_id>>
    nw_graph,       \* the graph of _build_graph
    nw_triangles,   \* passing_triangles of the metrics
    nw_centrality,  \* network_centrality of the metrics: a set of <<player, value>>
    nw_pc,          \* "new" or "done"
    \* ---- SoccerMatchAnalyzer.detect_pressing_events ----
    pr_tracks,      \* the tracks handed to detect_pressing_events
    pr_raw,         \* the events before deduplication (history)
    pr_events,      \* the events returned
    pr_pc,          \* "new" or "done"
    \* ---- HomographyTransform: there and back ----
    rt_matrix,      \* the matrix H: [scale, m], standing for scale * m with m of integers
    rt_point,       \* the pixel point (x, y)
    rt_fwd,         \* HomographyTransform(H).transform(x, y)
    rt_back,        \* HomographyTransform(inverse of H).transform of rt_fwd
    rt_pc,          \* "new", "raised", "forward" or "back"
    \* ---- Track: the buffer of appearance embeddings ----
    fb_features,    \* Track.features; the n-th embedding handed to the track is <<n>>
    fb_added,       \* embeddings handed to the track so far (history)
    fb_updates,     \* Track.update calls so far
    fb_pc,          \* "live"
    \* ---- XThreatGrid ----
    xt_calls,       \* the last two get_value calls, oldest first: [x, y, value]
    xt_pc,          \* "ready"
    mt_in,          \* tracks handed to compute_metrics
    mt_tracks,      \* the tracks dictionary compute_metrics works on and returns
    mt_fps,         \* fps argument of compute_metrics (a float)
    mt_pc,          \* "idle", "in" or "done"
    cl_data,        \* clips_data argument of parse_clips
    cl_fps,         \* fps argument of parse_clips
    cl_total,       \* total_frames argument of parse_clips
    cl_ranges,      \* the list parse_clips returned
    cl_pc,          \* "idle", "in" or "done"
    api_job,        \* analysis_jobs[job_id]: <<>> before the upload, else <<dict>>
    api_tpc,        \* position of the background thread analyze_video_task
    api_idx,        \* frame_idx of the background thread
    api_total,      \* total_frames as the capture reports it
    api_frames,     \* frames the capture actually delivers
    api_rpc,        \* position of the status request being served
    api_resp,       \* the response that request is building
    api_out,        \* <<>> or the last response get_analysis_status returned
    api_reqs        \* status requests started

trackerVars == <<frame_rate, tracks, next_id, ret, calls, last, retired, smooth>>
dedupVars == <<events, unique, dpc>>
passVars == <<order, potential_passes, passes, now, nframes, plog, pseen, pstarts, ppc>>
velVars == <<vcoords, vtimes, vfps, velocity, acceleration, vpc>>
analyzeVars ==
    <<apc, a_fps, a_raw, a_tracks, a_stats, a_events, a_passes, a_pots, a_pi,
      a_result, a_out>>

homVars == <<hm_str, hm_obj, hm_point, hm_out, hm_pc>>
dbVars == <<db_users, db_last, db_ops, db_conn, db_where, db_exit, db_after>>
jobVars ==
    <<j_frame_skip, j_homography, j_tracker, j_jobs, j_matrix, j_clips,
      j_unreadable, j_ranges, j_ri, j_frame_idx, j_tracks, j_processed, j_cap,
      j_stop, j_req, j_pc>>
netVars == <<nw_passes, nw_graph, nw_triangles, nw_centrality, nw_pc>>
pressVars == <<pr_tracks, pr_raw, pr_events, pr_pc>>
roundVars == <<rt_matrix, rt_point, rt_fwd, rt_back, rt_pc>>
featVars == <<fb_features, fb_added, fb_updates, fb_pc>>
xtVars == <<xt_calls, xt_pc>>
metricVars == <<mt_in, mt_tracks, mt_fps, mt_pc>>
clipVars == <<cl_data, cl_fps, cl_total, cl_ranges, cl_pc>>
apiVars == <<api_job, api_tpc, api_idx, api_total, api_frames, api_rpc, api_resp, api_out, api_reqs>>
vars == <<trackerVars, dedupVars, passVars, velVars, analyzeVars, homVars, jobVars, dbVars, netVars, pressVars, roundVars, featVars, xtVars, metricVars, clipVars, apiVars>>

(***************************************************************************)
(* Bounds of the model.                                                    *)
(***************************************************************************)
MaxFrameRate == 1   \* frame_rate is drawn from 1..MaxFrameRate
MaxCalls == 4       \* update calls per behaviour
MaxTracks == 2      \* live tracks at the end of a call
MaxDets == 2        \* detections handed to one update call
MaxEvents == 3      \* raw pressing events handed to _deduplicate_events
MaxTick == 3        \* timestamps of pressing events, in half seconds
MaxFrames == 3      \* frames processed by one detect_passes call
MaxStep == 2        \* seconds between two consecutive frames that carry points
MaxPoints == 3      \* points of a trajectory handed to _compute_velocity
MaxTrackPoints == 10 \* points of a track returned by track_players
MaxVideoFrames == 3 \* total_frames of the video of an analyze job
MaxJobs == 2        \* analyze calls made on one analyzer
MaxTrackIds == 2    \* ids the analyzer's tracker issues
MaxDbOps == 4       \* calls made on the users table
MaxPasses == 3      \* passes of the team handed to analyze_network
MaxUpdates == 102   \* Track.update calls on one track

(***************************************************************************)
(* HybridTracker constants (tenths where the source has a fraction).       *)
(***************************************************************************)
conf_thresh == 5        \* 0.5
iou_thresh == 3         \* 0.3
reid_thresh == 4        \* 0.4
min_hits == 3           \* "Min hits to confirm"
max_features == 100
NoFeatureDist == 10     \* 1.0, the distance of a track without features

(***************************************************************************)
(* Small arithmetic helpers.                                               *)
(***************************************************************************)
Max(a, b) == IF a >= b THEN a ELSE b
Min(a, b) == IF a <= b THEN a ELSE b
Abs(a) == IF a < 0 THEN 0 - a ELSE a

(***************************************************************************)
(* Exact rationals <<n, d>> in lowest terms with d > 0 stand for the       *)
(* floats of the metrics and pass code (metres, seconds, m/s).             *)
(***************************************************************************)
RECURSIVE GCD(_, _)
GCD(a, b) == IF b = 0 THEN a ELSE GCD(b, a % b)

RNorm(n, d) ==
    LET g == GCD(Abs(n), Abs(d))
    IN  IF d > 0 THEN <<n \div g, d \div g>> ELSE <<(0 - n) \div g, (0 - d) \div g>>

Rat(n) == <<n, 1>>
RAdd(a, b) == RNorm(a[1] * b[2] + b[1] * a[2], a[2] * b[2])
RSub(a, b) == RNorm(a[1] * b[2] - b[1] * a[2], a[2] * b[2])
RMul(a, b) == RNorm(a[1] * b[1], a[2] * b[2])
RDiv(a, b) == RNorm(a[1] * b[2], a[2] * b[1])
RLt(a, b) == a[1] * b[2] < b[1] * a[2]
RLe(a, b) == a[1] * b[2] <= b[1] * a[2]
RAbs(a) == <<Abs(a[1]), a[2]>>
RMin(a, b) == IF RLt(b, a) THEN b ELSE a
RMax(a, b) == IF RLt(a, b) THEN b ELSE a
\* int(q) of a float: truncation toward zero
IntRounded(q) == (2 * q[1] + q[2]) \div (2 * q[2])

int(q) == IF q[1] < 0 THEN 0 - ((0 - q[1]) \div q[2]) ELSE q[1] \div q[2]

RSq(a) == RMul(a, a)


\* a/b <= c/d and a/b < c/d for positive denominators
FracLeq(p, q) == p[1] * q[2] <= q[1] * p[2]
FracLess(p, q) == p[1] * q[2] < q[1] * p[2]

RECURSIVE FracSum(_, _)
FracSum(S, cost) ==
    IF S = {} THEN <<0, 1>>
    ELSE LET p == CHOOSE x \in S : TRUE
             r == FracSum(S \ {p}, cost)
         IN  <<cost[p][1] * r[2] + r[1] * cost[p][2], cost[p][2] * r[2]>>

\* the array f as a tuple
Tup(f) == f \o <<>>

RECURSIVE SeqOfSet(_)
SeqOfSet(S) ==
    IF S = {} THEN <<>>
    ELSE LET m == CHOOSE x \in S : \A y \in S : x <= y
         IN  <<m>> \o SeqOfSet(S \ {m})

(***************************************************************************)
(* Inputs of one update call.                                              *)
(*   DetBoxes   the boxes a detector may report.                           *)
(*   PredBoxes  the boxes Track.get_box() may return after predict(): the  *)
(*              Kalman filter is a library (filterpy) whose estimate is    *)
(*              not computed here, so the predicted box of a track is any  *)
(*              of these.                                                  *)
(*   DetInputs  a detection of confidence conf_thresh at each box, and one *)
(*              detection below conf_thresh.                               *)
(*   AppDists   cosine distances of the ReID model (a collaborator):       *)
(*              below and at reid_thresh.                                  *)
(***************************************************************************)
BoxA == <<0, 0, 2, 2>>
BoxB == <<1, 0, 3, 2>>      \* IoU 1/3 with BoxA
BoxC == <<4, 0, 6, 2>>      \* disjoint from BoxA and BoxB
BoxD == <<2, 0, 5, 2>>      \* IoU 1/4 with BoxC, below iou_thresh; 0 with BoxA
DetBoxes == {BoxA, BoxB, BoxC, BoxD}
PredBoxes == {BoxA, BoxC}
DetInputs == [box : DetBoxes, score : {conf_thresh}]
                 \cup {[box |-> BoxA, score |-> conf_thresh - 1]}
AppDists == {reid_thresh - 1, reid_thresh}

Detections == UNION {[1..n -> DetInputs] : n \in 0..MaxDets}

(***************************************************************************)
(* HybridTracker._iou, as the pair <<inter, area1 + area2 - inter>>; the   *)
(* source adds 1e-6 to the denominator, which on integer boxes changes no  *)
(* comparison with a threshold.                                            *)
(***************************************************************************)
_iou(box1, box2) ==
    LET xx1 == Max(box1[1], box2[1])
        yy1 == Max(box1[2], box2[2])
        xx2 == Min(box1[3], box2[3])
        yy2 == Min(box1[4], box2[4])
        w == Max(0, xx2 - xx1)
        h == Max(0, yy2 - yy1)
        inter == w * h
        area1 == (box1[3] - box1[1]) * (box1[4] - box1[2])
        area2 == (box2[3] - box2[1]) * (box2[4] - box2[2])
    IN  <<inter, area1 + area2 - inter>>

\* iou > iou_thresh, the reading of "iou_dists[r, c] < 1.0 - iou_thresh"
IouAccept(iou) == 10 * iou[1] > iou_thresh * iou[2]

\* dists[r, c] < reid_thresh
ReidAccept(d) == d < reid_thresh

(***************************************************************************)
(* scipy.optimize.linear_sum_assignment over rows R and columns C: the     *)
(* matchings of min(|R|, |C|) pairs with distinct rows and columns whose   *)
(* total cost is least.  Among several of least cost the library picks     *)
(* one by its own rule; the model lets any of them be the result.          *)
(***************************************************************************)
Matchings(R, C) ==
    LET k == Min(Cardinality(R), Cardinality(C))
    IN  {m \in SUBSET (R \X C) :
            /\ Cardinality(m) = k
            /\ \A p, q \in m : p # q => (p[1] # q[1] /\ p[2] # q[2])}

linear_sum_assignment(R, C, cost) ==
    LET ms == Matchings(R, C)
        total == [m \in ms |-> FracSum(m, cost)]
    IN  {m \in ms : \A o \in ms : FracLeq(total[m], total[o])}

(***************************************************************************)
(* Track                                                                   *)
(***************************************************************************)
\* Track.__init__: a track created from a detection.  Track.box is written
\* here and in Track.update and read nowhere (get_box() reads the filter),
\* so the record does not carry it.
NewTrack(id, box, score, hasFeature) ==
    [track_id |-> id, score |-> score,
     nfeat |-> IF hasFeature THEN 1 ELSE 0,
     hits |-> 1, age |-> 1, time_since_update |-> 0, state |-> "active"]

\* Track.predict: the counters it advances (the Kalman step is the library's)
PredictTimeOnly(t) == [t EXCEPT !.time_since_update = @ + 1]
Predict(t) ==
    [t EXCEPT !.age = @ + 1, !.time_since_update = @ + 1]

\* Track.update
TrackUpdate(t, box, score, hasFeature) ==
    [t EXCEPT !.hits = @ + 1, !.time_since_update = 0, !.score = score,
              !.nfeat = IF hasFeature THEN Min(@ + 1, max_features) ELSE @]

(***************************************************************************)
(* HybridTracker.update, step by step.                                     *)
(***************************************************************************)
\* step 1: dets = [d for d in detections if d[4] >= self.conf_thresh]
RECURSIVE FilterDets(_)
FilterDets(ds) ==
    IF ds = <<>> THEN <<>>
    ELSE (IF Head(ds).score >= conf_thresh THEN <<Head(ds)>> ELSE <<>>)
         \o FilterDets(Tail(ds))

\* stage 1: the accepted pairs <<track index, detection index>>
Stage1Cost(ts, dist, nT, nD) ==
    [p \in (1..nT) \X (1..nD) |->
        IF ts[p[1]].nfeat > 0 THEN <<dist[p[1]][p[2]], 10>>
        ELSE <<NoFeatureDist, 10>>]

Stage1Accepted(m1, cost) == {p \in m1 : ReidAccept(cost[p][1])}

\* unmatched_tracks_idx after stage 1
UnmatchedTracksAll(nT, acc1) == 1..nT
UnmatchedTracks(nT, acc1) == (1..nT) \ {p[1] : p \in acc1}

\* stage 2: cost 1 - iou between the predicted box and the detection box
Stage2CostIou(pred, dets, uT, uD) ==
    [p \in uT \X uD |-> _iou(pred[p[1]], dets[p[2]].box)]
Stage2Cost(pred, dets, uT, uD) ==
    [p \in uT \X uD |->
        LET iou == _iou(pred[p[1]], dets[p[2]].box)
        IN  <<iou[2] - iou[1], iou[2]>>]

Stage2AcceptedNone(m2, pred, dets) == {}
Stage2Accepted(m2, pred, dets) ==
    {p \in m2 : IouAccept(_iou(pred[p[1]], dets[p[2]].box))}

\* step 5: matched tracks are updated with their detection
UpdateMatched(ts, dets, matches) ==
    [i \in 1..Len(ts) |->
        IF \E p \in matches : p[1] = i
        THEN LET d == dets[(CHOOSE p \in matches : p[1] = i)[2]]
             IN  TrackUpdate(ts[i], d.box, d.score, TRUE)
        ELSE ts[i]]

\* the id given to a new track
AllocIdLowestFree(nid, ts) ==
    CHOOSE k \in 1..(Len(ts) + 1) :
        /\ \A i \in 1..Len(ts) : ts[i].track_id # k
        /\ \A j \in 1..(k - 1) : \E i \in 1..Len(ts) : ts[i].track_id = j
AllocId(nid, ts) == nid

\* step 5: a new track for every unmatched detection, in detection order
RECURSIVE CreateTracks(_, _, _, _)
CreateTracks(ts, nid, dets, newIdx) ==
    IF newIdx = <<>> THEN <<ts, nid>>
    ELSE LET d == dets[Head(newIdx)]
         IN  CreateTracks(Append(ts, NewTrack(AllocId(nid, ts), d.box, d.score, TRUE)),
                          nid + 1, dets, Tail(newIdx))

\* "Remove dead tracks"
max_age(fr) == fr * 2
Alive(t, fr) == t.time_since_update < max_age(fr)

RECURSIVE SelectTracks(_, _)
SelectTracks(ts, fr) ==
    IF ts = <<>> THEN <<>>
    ELSE (IF Alive(Head(ts), fr) THEN <<Head(ts)>> ELSE <<>>)
         \o SelectTracks(Tail(ts), fr)

\* "Return active tracks"
ConfirmedAfterTwoHits(t) == t.time_since_update < 1 /\ t.hits >= min_hits - 1
Confirmed(t) == t.time_since_update < 1 /\ t.hits >= min_hits

RECURSIVE RetTracks(_)
RetTracks(ts) ==
    IF ts = <<>> THEN <<>>
    ELSE (IF Confirmed(Head(ts))
          THEN <<[track_id |-> Head(ts).track_id, score |-> Head(ts).score]>>
          ELSE <<>>)
         \o RetTracks(Tail(ts))

TrackIds(ts) == {ts[i].track_id : i \in 1..Len(ts)}
RowIds(rows) == {rows[i].track_id : i \in 1..Len(rows)}

(***************************************************************************)
(* History of the last call, kept for the properties:                      *)
(*   matched   <<track id, detection index>> of every accepted match       *)
(*   created   ids of the tracks created in the call                       *)
(*   dropped   ids of the tracks the call removed as dead                  *)
(*   fallback  when the call was an IoU-fallback case (two tracks, two     *)
(*             detections, no appearance distance below reid_thresh, each  *)
(*             detection over exactly one predicted box and IoU 0 with the *)
(*             other, each track under one detection): the overlapping     *)
(*             pairs <<track id, detection index>>; otherwise {}           *)
(***************************************************************************)
Overlaps(pred, dets, t, d) == 10 * _iou(pred[t], dets[d].box)[1]
                                  > iou_thresh * _iou(pred[t], dets[d].box)[2]
Disjoint(pred, dets, t, d) == _iou(pred[t], dets[d].box)[1] = 0

FallbackPairs(ts, dets, dist, pred) ==
    IF /\ Len(ts) = 2 /\ Len(dets) = 2
       /\ \A t \in 1..2 : \A d \in 1..2 : dist[t][d] >= reid_thresh
       /\ DOMAIN pred = 1..2
       /\ \A d \in 1..2 : \E t \in 1..2 :
              Overlaps(pred, dets, t, d) /\ Disjoint(pred, dets, 3 - t, d)
       /\ \A t \in 1..2 : \E d \in 1..2 : Overlaps(pred, dets, t, d)
    THEN {<<ts[t].track_id, d>> : <<t, d>> \in
              {p \in (1..2) \X (1..2) : Overlaps(pred, dets, p[1], p[2])}}
    ELSE {}

\* the continuity hypothesis of one call: a single detection passes the
\* confidence filter and, after the first call, it is within an association
\* threshold of the one existing track
Continuous(ts, dets, dist, pred) ==
    /\ Len(dets) = 1
    /\ calls > 0 =>
          /\ Len(ts) = 1
          /\ \/ dist[1][1] < reid_thresh
             \/ (1 \in DOMAIN pred /\ Overlaps(pred, dets, 1, 1))

(***************************************************************************)
(* One call update(detections, frame).  dist is the appearance distance of *)
(* each (track, detection) pair, pred the predicted box of each track that *)
(* reaches the IoU stage; m1 and m2 are the assignments the stages solve.  *)
(***************************************************************************)
Finish(dets, predicted, dist, pred, acc1, acc2) ==
    LET matches == acc1 \cup acc2
        updated == UpdateMatched(predicted, dets, matches)
        newIdx == SeqOfSet((1..Len(dets)) \ {p[2] : p \in matches})
        created == CreateTracks(updated, next_id, dets, newIdx)
        all == created[1]
        kept == SelectTracks(all, frame_rate)
    IN  /\ Len(kept) <= MaxTracks
        /\ tracks' = kept
        /\ next_id' = created[2]
        /\ ret' = RetTracks(kept)
        /\ calls' = calls + 1
        /\ last' = [matched |-> {<<predicted[p[1]].track_id, p[2]>> : p \in matches},
                    stage1 |-> {<<predicted[p[1]].track_id, p[2]>> : p \in acc1},
                    stage2 |-> {<<predicted[p[1]].track_id, p[2]>> : p \in acc2},
                    ndets |-> Len(dets),
                    created |-> {all[i].track_id : i \in (Len(updated) + 1)..Len(all)},
                    dropped |-> {all[i].track_id :
                                    i \in {j \in 1..Len(all) : ~Alive(all[j], frame_rate)}},
                    fallback |-> FallbackPairs(predicted, dets, dist, pred)]
        /\ retired' = retired \cup
               {all[i].track_id : i \in {j \in 1..Len(all) : ~Alive(all[j], frame_rate)}}
        /\ smooth' = (smooth /\ Continuous(predicted, dets, dist, pred))
        /\ UNCHANGED frame_rate

Update ==
    /\ calls < MaxCalls
    /\ \E detections \in Detections :
         LET dets == FilterDets(detections)
             nD == Len(dets)
             \* step 3: predict every track
             predicted == [i \in 1..Len(tracks) |-> Predict(tracks[i])]
             nT == Len(predicted)
             stage1 == nD > 0 /\ nT > 0
         IN  \E dist \in (IF stage1 THEN [1..nT -> [1..nD -> AppDists]] ELSE {<<>>}) :
             LET cost1 == Stage1Cost(predicted, dist, nT, nD)
             IN  \E m1 \in (IF stage1 THEN linear_sum_assignment(1..nT, 1..nD, cost1)
                            ELSE {{}}) :
                 LET acc1 == Stage1Accepted(m1, cost1)
                     uT == UnmatchedTracks(nT, acc1)
                     uD == (1..nD) \ {p[2] : p \in acc1}
                     stage2 == uD # {} /\ uT # {}
                 IN  \E pred \in (IF stage2 THEN [uT -> PredBoxes] ELSE {<<>>}) :
                     \E m2 \in (IF stage2
                                THEN linear_sum_assignment(uT, uD,
                                         Stage2Cost(pred, dets, uT, uD))
                                ELSE {{}}) :
                         Finish(dets, predicted, dist, pred, acc1,
                                Stage2Accepted(m2, pred, dets))

NoCall ==
    [matched |-> {}, stage1 |-> {}, stage2 |-> {}, ndets |-> 0,
     created |-> {}, dropped |-> {}, fallback |-> {}]

TrackerInit ==
    /\ frame_rate \in 1..MaxFrameRate
    /\ tracks = <<>>
    /\ next_id = 1
    /\ ret = <<>>
    /\ calls = 0
    /\ last = NoCall
    /\ retired = {}
    /\ smooth = TRUE

TrackerIdle ==
    /\ frame_rate = 1
    /\ tracks = <<>>
    /\ next_id = 1
    /\ ret = <<>>
    /\ calls = 0
    /\ last = NoCall
    /\ retired = {}
    /\ smooth = TRUE

(***************************************************************************)
(* SoccerMatchAnalyzer._deduplicate_events.  Timestamps are rationals, in   *)
(* seconds; the events handed in lie on a grid of half seconds.            *)
(***************************************************************************)
time_window == 1

PressingEvents ==
    [defender_id : {1, 2}, attacker_id : {3},
     timestamp : {RNorm(k, 2) : k \in 0..MaxTick}]

\* events.sort(key=lambda e: e.timestamp): a stable sort by timestamp
RECURSIVE InsertByTimestamp(_, _)
InsertByTimestamp(sorted, e) ==
    IF sorted = <<>> THEN <<e>>
    ELSE IF RLe(Head(sorted).timestamp, e.timestamp)
         THEN <<Head(sorted)>> \o InsertByTimestamp(Tail(sorted), e)
         ELSE <<e>> \o sorted

RECURSIVE SortByTimestamp(_)
SortByTimestamp(es) ==
    IF es = <<>> THEN <<>>
    ELSE InsertByTimestamp(SortByTimestamp(SubSeq(es, 1, Len(es) - 1)), es[Len(es)])

\* the loop body's test: same players as the last kept event, within the window
IsDuplicate(event, lastKept) ==
    /\ event.defender_id = lastKept.defender_id
    /\ event.attacker_id = lastKept.attacker_id
    /\ RLt(RSub(event.timestamp, lastKept.timestamp), Rat(time_window))

RECURSIVE DedupLoop(_, _)
DedupLoop(uniq, rest) ==
    IF rest = <<>> THEN uniq
    ELSE IF IsDuplicate(Head(rest), uniq[Len(uniq)])
         THEN DedupLoop(uniq, Tail(rest))
         ELSE DedupLoop(Append(uniq, Head(rest)), Tail(rest))

_deduplicate_events_unsorted(es) ==
    IF es = <<>> THEN es
    ELSE DedupLoop(<<es[1]>>, Tail(es))

_deduplicate_events(es) ==
    IF es = <<>> THEN es
    ELSE LET sorted == SortByTimestamp(es)
         IN  DedupLoop(<<sorted[1]>>, Tail(sorted))

Deduplicate ==
    /\ dpc = "raw"
    /\ events' = SortByTimestamp(events)
    /\ unique' = _deduplicate_events(events)
    /\ dpc' = "done"

DedupInit ==
    /\ events \in UNION {[1..n -> PressingEvents] : n \in 0..MaxEvents}
    /\ unique = <<>>
    /\ dpc = "raw"

DedupIdle ==
    /\ events = <<>>
    /\ unique = <<>>
    /\ dpc = "idle"

(***************************************************************************)
(* PassDetector.  Positions are in metres, timestamps in seconds and       *)
(* velocities in m/s, all exact rationals; distances are compared by their *)
(* squares.  A player of a frame is a record [pid, x, y, team, velocity,   *)
(* timestamp]; the frame's players are listed in the iteration order of    *)
(* the tracks mapping.  The fields start_frame, start_xthreat and          *)
(* min_distance of a candidate, and xthreat_delta of a PassEvent, are      *)
(* written and never read by the detector and are not carried.             *)
(***************************************************************************)
pass_proximity_threshold_m == 3
pass_min_distance_m == 2
pass_max_distance_m == 40
pass_max_duration_s == 3
pass_velocity_threshold_ms == <<3, 2>>
min_receiver_velocity == <<1, 2>>
short_pass_limit == 10
medium_pass_limit == 25

Pids == {1, 2}
Teams == {"A", "B", "Unknown"}
PlayerXs == {-2, 0, 1, 42}
PlayerVels == {<<2, 5>>, min_receiver_velocity, <<2, 1>>}
PlayerPoints == [x : PlayerXs, y : {0}, team : Teams, velocity : PlayerVels]
Absent == [x |-> 0, y |-> 0, team |-> "none", velocity |-> <<0, 1>>]

\* the frames fed to the detector; the velocity of the player listed first
\* is never read (only a receiver's is), so it is not varied
FrameInputs(ord) ==
    {f \in [Pids -> PlayerPoints \cup {Absent}] :
        f[ord[1]] # Absent => f[ord[1]].velocity = <<2, 1>>}

Dist2(x1, y1, x2, y2) == RAdd(RSq(RSub(x1, x2)), RSq(RSub(y1, y2)))

\* _index_by_frame: the players of a frame, in the tracks' iteration order
RECURSIVE Players(_, _, _)
Players(ord, f, ts) ==
    IF ord = <<>> THEN <<>>
    ELSE LET rest == Players(Tail(ord), f, ts)
             pid == Head(ord)
         IN  IF f[pid] = Absent THEN rest
             ELSE <<[pid |-> pid, x |-> Rat(f[pid].x), y |-> Rat(f[pid].y),
                     team |-> f[pid].team, velocity |-> f[pid].velocity,
                     timestamp |-> Rat(ts)]>> \o rest

Existing(pots, pid1, pid2) ==
    \E k \in 1..Len(pots) :
        pots[k].passer = pid1 /\ pots[k].receiver = pid2 /\ pots[k].active

\* the same-team check of _detect_pass_starts
SameTeamOnly(p1, p2) == p1.team = p2.team

SameKnownTeam(p1, p2) == ~(p1.team # p2.team \/ p1.team = "Unknown")

\* the body of the double loop of _detect_pass_starts for the pair (i, j)
StartPair(pots, players, i, j) ==
    LET p1 == players[i]
        p2 == players[j]
    IN  IF ~SameKnownTeam(p1, p2) THEN pots
        ELSE IF RLt(Dist2(p1.x, p1.y, p2.x, p2.y), Rat(pass_proximity_threshold_m * pass_proximity_threshold_m))
                  /\ ~Existing(pots, p1.pid, p2.pid)
             THEN Append(pots, [passer |-> p1.pid, receiver |-> p2.pid,
                                team |-> p1.team, start_time |-> p1.timestamp,
                                start_pos |-> <<p1.x, p1.y>>, active |-> TRUE])
             ELSE pots

\* the first index of the inner loop over players[i+1:]
InnerStartAll(i) == 1

InnerStart(i) == i + 1

RECURSIVE _detect_pass_starts(_, _, _, _)
_detect_pass_starts(pots, players, i, j) ==
    IF i > Len(players) THEN pots
    ELSE IF j > Len(players)
    THEN _detect_pass_starts(pots, players, i + 1, InnerStart(i + 1))
    ELSE _detect_pass_starts(StartPair(pots, players, i, j), players, i, j + 1)

PassDistance2(potential, receiver) ==
    Dist2(receiver.x, receiver.y, potential.start_pos[1], potential.start_pos[2])

_validate_pass_strict(potential, receiver, duration) ==
    /\ ~RLe(PassDistance2(potential, receiver), Rat(pass_min_distance_m * pass_min_distance_m))
    /\ ~RLt(Rat(pass_max_distance_m * pass_max_distance_m), PassDistance2(potential, receiver))
    /\ ~(RLe(duration, Rat(0)) \/ RLt(Rat(pass_max_duration_s), duration))
    /\ ~RLt(receiver.velocity, min_receiver_velocity)

_validate_pass(potential, receiver, duration) ==
    /\ ~RLt(PassDistance2(potential, receiver), Rat(pass_min_distance_m * pass_min_distance_m))
    /\ ~RLt(Rat(pass_max_distance_m * pass_max_distance_m), PassDistance2(potential, receiver))
    /\ ~(RLe(duration, Rat(0)) \/ RLt(Rat(pass_max_duration_s), duration))
    /\ ~RLt(receiver.velocity, min_receiver_velocity)

_classify_pass_type(d2) ==
    IF RLt(d2, Rat(short_pass_limit * short_pass_limit)) THEN "short"
    ELSE IF RLt(d2, Rat(medium_pass_limit * medium_pass_limit)) THEN "medium"
    ELSE "long"

PlayerOf(players, pid) ==
    players[CHOOSE k \in 1..Len(players) : players[k].pid = pid]

InFrame(players, pid) == \E k \in 1..Len(players) : players[k].pid = pid

PassLog(k, how, d2, duration, vel, emitted) ==
    [idx |-> k, how |-> how, disp2 |-> d2, duration |-> duration,
     velocity |-> vel, emitted |-> emitted]

\* what the loop body saw of candidate k: whether both players are in the
\* frame, the squared distance of the pair and the time since the start
PassSeen(k, present, sep2, duration) ==
    [idx |-> k, present |-> present, sep2 |-> sep2, duration |-> duration]

\* the order of the tests of the loop body once both players are in the
\* frame: "completed", "timed-out" or "kept"
TimeoutFirst(dist2, duration) ==
    IF RLt(Rat(pass_max_duration_s), duration) THEN "timed-out"
    ELSE IF RLt(Rat(pass_proximity_threshold_m * pass_proximity_threshold_m), dist2)
    THEN "completed"
    ELSE "kept"

Outcome(dist2, duration) ==
    IF RLt(Rat(pass_proximity_threshold_m * pass_proximity_threshold_m), dist2)
    THEN "completed"
    ELSE IF RLt(Rat(pass_max_duration_s), duration) THEN "timed-out"
    ELSE "kept"

\* one iteration of the loop of _update_and_complete_passes over candidate k;
\* acc = [pots, completed, log, seen]
UpdateOne(acc, k, players, frame) ==
    LET potential == acc.pots[k]
        off == [acc.pots EXCEPT ![k].active = FALSE]
    IN  IF ~potential.active THEN acc
        ELSE IF ~InFrame(players, potential.passer) \/ ~InFrame(players, potential.receiver)
        THEN [acc EXCEPT !.pots = off,
                         !.log = @ \cup {PassLog(k, "broken", Rat(0), Rat(0), Rat(0), FALSE)},
                         !.seen = @ \cup {PassSeen(k, FALSE, Rat(0), Rat(0))}]
        ELSE LET passer == PlayerOf(players, potential.passer)
                 receiver == PlayerOf(players, potential.receiver)
                 dist2 == Dist2(passer.x, passer.y, receiver.x, receiver.y)
                 duration == RSub(passer.timestamp, potential.start_time)
                 ok == _validate_pass(potential, receiver, duration)
                 d2 == PassDistance2(potential, receiver)
                 ev == [frame |-> frame, timestamp |-> receiver.timestamp,
                        passer_id |-> potential.passer,
                        receiver_id |-> potential.receiver,
                        team |-> potential.team, distance2 |-> d2,
                        duration |-> duration,
                        pass_type |-> _classify_pass_type(d2),
                        success |-> RLt(pass_velocity_threshold_ms, receiver.velocity),
                        start_position |-> potential.start_pos,
                        end_position |-> <<receiver.x, receiver.y>>]
                 how == Outcome(dist2, duration)
                 seen == acc.seen \cup {PassSeen(k, TRUE, dist2, duration)}
             IN  IF how = "completed"
                 THEN [pots |-> off,
                       completed |-> IF ok THEN Append(acc.completed, ev) ELSE acc.completed,
                       log |-> acc.log \cup
                           {PassLog(k, "completed", d2, duration, receiver.velocity, ok)},
                       seen |-> seen]
                 ELSE IF how = "timed-out"
                 THEN [acc EXCEPT !.pots = off,
                                  !.log = @ \cup
                           {PassLog(k, "timed-out", d2, duration, receiver.velocity, FALSE)},
                                  !.seen = seen]
                 ELSE [acc EXCEPT !.seen = seen]

RECURSIVE _update_and_complete_passes(_, _, _, _)
_update_and_complete_passes(acc, k, players, frame) ==
    IF k > Len(acc.pots) THEN acc
    ELSE _update_and_complete_passes(UpdateOne(acc, k, players, frame),
                                     k + 1, players, frame)

\* the body of the frame loop of detect_passes for one frame;
\* st = [pots, passes], result [pots, passes, log, seen]
DetectFrame(st, players, frame) ==
    LET started == _detect_pass_starts(st.pots, players, 1, InnerStart(1))
        acc == _update_and_complete_passes(
                   [pots |-> started, completed |-> <<>>, log |-> {}, seen |-> {}],
                   1, players, frame)
    IN  [pots |-> acc.pots, passes |-> st.passes \o acc.completed, log |-> acc.log,
         seen |-> acc.seen]

\* one iteration of the frame loop of detect_passes
PassFrame ==
    /\ ppc = "loop"
    /\ nframes < MaxFrames
    /\ \E f \in FrameInputs(order), step \in 1..MaxStep :
          \E players \in {Players(order, f, now + step)} :
          \E r \in {DetectFrame([pots |-> potential_passes, passes |-> passes],
                                 players, nframes + 1)} :
              /\ players # <<>>
              /\ potential_passes' = r.pots
              /\ passes' = r.passes
              /\ plog' = r.log
              /\ pseen' = r.seen
              /\ pstarts' = pstarts \o Tup(
                    [k \in 1..(Len(r.pots) - Len(potential_passes)) |->
                        LET pp == r.pots[Len(potential_passes) + k]
                        IN  [passer_team |-> PlayerOf(players, pp.passer).team,
                             receiver_team |-> PlayerOf(players, pp.receiver).team]])
              /\ now' = now + step
              /\ nframes' = nframes + 1
    /\ UNCHANGED <<order, ppc>>

\* the end of detect_passes: the candidates are cleared and passes returned
\* (with no tracks at all the method returns [] at once)
PassReturn ==
    /\ ppc = "loop"
    /\ potential_passes' = <<>>
    /\ plog' = {}
    /\ pseen' = {}
    /\ pstarts' = <<>>
    /\ ppc' = "done"
    /\ UNCHANGED <<order, passes, now, nframes>>

PassInit ==
    /\ order \in {<<1, 2>>, <<2, 1>>}
    /\ potential_passes = <<>>
    /\ passes = <<>>
    /\ now = 0
    /\ nframes = 0
    /\ plog = {}
    /\ pseen = {}
    /\ pstarts = <<>>
    /\ ppc = "loop"

PassIdle ==
    /\ order = <<1, 2>>
    /\ potential_passes = <<>>
    /\ passes = <<>>
    /\ now = 0
    /\ nframes = 0
    /\ plog = {}
    /\ pseen = {}
    /\ pstarts = <<>>
    /\ ppc = "idle"

(***************************************************************************)
(* SoccerMatchAnalyzer._compute_velocity and _compute_acceleration, on     *)
(* exact rationals (metres, seconds).                                      *)
(***************************************************************************)
max_distance_jump_m == 10
max_frame_gap_seconds == <<1, 2>>
max_speed_ms == <<25, 2>>
sprint_threshold_ms == 7
max_acceleration == 10
accel_fallback_dt == <<33, 1000>>

ISqrt(n) == CHOOSE k \in 0..n : k * k = n

\* np.linalg.norm of one displacement; the trajectories fed in keep it rational
Norm(dx, dy) ==
    IF dy[1] = 0 THEN RAbs(dx)
    ELSE IF dx[1] = 0 THEN RAbs(dy)
    ELSE LET q == RAdd(RSq(dx), RSq(dy)) IN <<ISqrt(q[1]), ISqrt(q[2])>>

RClip(v, lo, hi) == RMax(lo, RMin(v, hi))

StepDtUnitFallback(timestamps, i, fallback) ==
    LET dt == RSub(timestamps[i + 1], timestamps[i])
    IN  IF dt[1] = 0 THEN Rat(1) ELSE dt

\* dt = np.diff(timestamps); dt[dt == 0] = fallback
StepDt(timestamps, i, fallback) ==
    LET dt == RSub(timestamps[i + 1], timestamps[i])
    IN  IF dt[1] = 0 THEN fallback ELSE dt

StepDist(coords, i) ==
    Norm(RSub(coords[i + 1][1], coords[i][1]), RSub(coords[i + 1][2], coords[i][2]))

ValidMoveJumpOnly(dist, dt) == RLt(dist, Rat(max_distance_jump_m))

ValidMove(dist, dt) ==
    RLt(dist, Rat(max_distance_jump_m)) /\ RLt(dt, max_frame_gap_seconds)

StepVelocity(coords, timestamps, fps, i) ==
    LET dt == StepDt(timestamps, i, RDiv(Rat(1), fps))
        dist == StepDist(coords, i)
    IN  RClip(IF ValidMove(dist, dt) THEN RDiv(dist, dt) ELSE Rat(0),
              Rat(0), max_speed_ms)

_compute_velocity(coords, timestamps, fps) ==
    Tup([i \in 1..Len(coords) |->
            IF i = 1 THEN Rat(0) ELSE StepVelocity(coords, timestamps, fps, i - 1)])

_compute_acceleration_unclipped(vel, timestamps) ==
    Tup([i \in 1..Len(vel) |->
            IF i = 1 THEN Rat(0)
            ELSE RDiv(RSub(vel[i], vel[i - 1]),
                      StepDt(timestamps, i - 1, accel_fallback_dt))])

_compute_acceleration(vel, timestamps) ==
    Tup([i \in 1..Len(vel) |->
            IF i = 1 THEN Rat(0)
            ELSE RClip(RDiv(RSub(vel[i], vel[i - 1]),
                            StepDt(timestamps, i - 1, accel_fallback_dt)),
                       Rat(0 - max_acceleration), Rat(max_acceleration))])

VelXs == {0, 1, 2, 10, 11}
VelGaps == {<<0, 1>>, <<1, 4>>, max_frame_gap_seconds, <<1, 1>>}
VelFps == {1, 4, 30}

RECURSIVE Cumulate(_, _)
Cumulate(t0, gaps) ==
    IF gaps = <<>> THEN <<t0>>
    ELSE <<t0>> \o Cumulate(RAdd(t0, Head(gaps)), Tail(gaps))

ComputeVelocity ==
    /\ vpc = "in"
    /\ velocity' = _compute_velocity(vcoords, vtimes, Rat(vfps))
    /\ vpc' = "vel"
    /\ UNCHANGED <<vcoords, vtimes, vfps, acceleration>>

ComputeAcceleration ==
    /\ vpc = "vel"
    /\ acceleration' = _compute_acceleration(velocity, vtimes)
    /\ vpc' = "acc"
    /\ UNCHANGED <<vcoords, vtimes, vfps, velocity>>

VelInit ==
    /\ \E n \in 1..MaxPoints :
          /\ \E xs \in [1..n -> VelXs] : vcoords = [i \in 1..n |-> <<Rat(xs[i]), Rat(0)>>]
          /\ \E gaps \in [1..(n - 1) -> VelGaps] : vtimes = Cumulate(Rat(0), gaps)
    /\ vfps \in VelFps
    /\ velocity = <<>>
    /\ acceleration = <<>>
    /\ vpc = "in"

VelIdle ==
    /\ vcoords = <<>>
    /\ vtimes = <<>>
    /\ vfps = 1
    /\ velocity = <<>>
    /\ acceleration = <<>>
    /\ vpc = "idle"

(***************************************************************************)
(* SoccerMatchAnalyzer.compute_metrics and compute_player_stats.  A track  *)
(* is a record [pid, points]; the tracks mapping is the sequence of its    *)
(* entries in iteration order.  A TrackPoint is a record [frame,           *)
(* timestamp, xm, ym, xm_smooth, ym_smooth, velocity, acceleration,        *)
(* is_sprinting, team]; None is the empty tuple.  The xthreat field is not *)
(* carried.                                                                *)
(***************************************************************************)
None == <<>>
min_track_length_seconds == 1
smoothing_window == 15
polyorder == 2

\* sum of t^p over the centred offsets t = -m..m (p even)
RECURSIVE PowSum(_, _)
PowSum(m, p) ==
    IF m = 0 THEN (IF p = 0 THEN 1 ELSE 0)
    ELSE PowSum(m - 1, p) + 2 * (IF p = 0 THEN 1 ELSE IF p = 2 THEN m * m ELSE m * m * m * m)

\* sum over the first j window values of t^p * value, t = offset from the centre
RECURSIVE Moment(_, _, _, _)
Moment(ws, m, p, j) ==
    IF j = 0 THEN Rat(0)
    ELSE LET t == j - m - 1
             tp == IF p = 0 THEN 1 ELSE IF p = 1 THEN t ELSE t * t
         IN  RAdd(Moment(ws, m, p, j - 1), RMul(Rat(tp), ws[j]))

\* value at offset ti of the least-squares parabola through the window ws
PolyFitAt(ws, m, ti) ==
    LET s0 == PowSum(m, 0)
        s2 == PowSum(m, 2)
        s4 == PowSum(m, 4)
        d == s0 * s4 - s2 * s2
        y0 == Moment(ws, m, 0, Len(ws))
        y1 == Moment(ws, m, 1, Len(ws))
        y2 == Moment(ws, m, 2, Len(ws))
        a0 == RDiv(RSub(RMul(Rat(s4), y0), RMul(Rat(s2), y2)), Rat(d))
        a1 == RDiv(y1, Rat(s2))
        a2 == RDiv(RSub(RMul(Rat(s0), y2), RMul(Rat(s2), y0)), Rat(d))
    IN  RAdd(a0, RAdd(RMul(a1, Rat(ti)), RMul(a2, Rat(ti * ti))))

\* scipy.signal.savgol_filter(ys, window, 2) with the default mode 'interp'
savgol_filter(ys, window) ==
    LET n == Len(ys)
        m == (window - 1) \div 2
    IN  Tup([i \in 1..n |->
            IF i <= m THEN PolyFitAt(SubSeq(ys, 1, window), m, i - (m + 1))
            ELSE IF i > n - m THEN PolyFitAt(SubSeq(ys, n - window + 1, n), m, i - (n - m))
            ELSE PolyFitAt(SubSeq(ys, i - m, i + m), m, 0)])

SmoothingWindow(n) ==
    LET window == Min(n, smoothing_window)
    IN  IF window % 2 = 0 THEN window - 1 ELSE window

_smooth_trajectory(coords) ==
    LET window == SmoothingWindow(Len(coords))
    IN  IF window < polyorder + 1 THEN coords
        ELSE LET sx == savgol_filter(Tup([i \in 1..Len(coords) |-> coords[i][1]]), window)
                 sy == savgol_filter(Tup([i \in 1..Len(coords) |-> coords[i][2]]), window)
             IN  Tup([i \in 1..Len(coords) |-> <<sx[i], sy[i]>>])

\* int(self.config.min_track_length_seconds * fps)
MinTrackLength(fps) == int(RMul(Rat(min_track_length_seconds), fps))

\* the loop body of compute_metrics for a track that is kept
TrackMetrics(track, fps) ==
    IF track[1].xm = None THEN track
    ELSE LET coords == Tup([i \in 1..Len(track) |-> <<track[i].xm, track[i].ym>>])
             timestamps == Tup([i \in 1..Len(track) |-> track[i].timestamp])
             coords_smooth == _smooth_trajectory(coords)
             vel == _compute_velocity(coords_smooth, timestamps, fps)
             acc == _compute_acceleration(vel, timestamps)
         IN  Tup([i \in 1..Len(track) |->
                     [track[i] EXCEPT !.xm_smooth = coords_smooth[i][1],
                                      !.ym_smooth = coords_smooth[i][2],
                                      !.velocity = vel[i],
                                      !.acceleration = acc[i],
                                      !.is_sprinting = RLt(Rat(sprint_threshold_ms), vel[i])]])

RECURSIVE compute_metrics(_, _)
compute_metrics(trks, fps) ==
    IF trks = <<>> THEN <<>>
    ELSE LET t == Head(trks)
             rest == compute_metrics(Tail(trks), fps)
         IN  IF Len(t.points) < MinTrackLength(fps) THEN rest
             ELSE <<[pid |-> t.pid, points |-> TrackMetrics(t.points, fps)]>> \o rest

\* round(q, digits) with scale = 10^digits: nearest multiple of 1/scale,
\* ties to the even multiple
RoundTo(q, scale) ==
    LET n == q[1] * scale
        fl == n \div q[2]
        r2 == 2 * (n - fl * q[2])
    IN  RNorm(IF r2 < q[2] THEN fl
              ELSE IF r2 > q[2] THEN fl + 1
              ELSE IF fl % 2 = 0 THEN fl ELSE fl + 1, scale)

Round2(q) == RoundTo(q, 100)
Round3(q) == RoundTo(q, 1000)

\* "p.xm_smooth or p.xm": None and 0.0 both fall back to the raw coordinate
OrElse(a, b) == IF a = None \/ a[1] = 0 THEN b ELSE a

RECURSIVE TotalDistance(_, _)
TotalDistance(coords, i) ==
    IF i = 0 THEN Rat(0)
    ELSE LET d == StepDist(coords, i)
         IN  RAdd(TotalDistance(coords, i - 1),
                  IF RLt(d, Rat(max_distance_jump_m)) THEN d ELSE Rat(0))

RECURSIVE MaxVelocity(_, _)
MaxVelocity(track, i) ==
    IF i = 1 THEN track[1].velocity
    ELSE RMax(MaxVelocity(track, i - 1), track[i].velocity)

RECURSIVE PositiveSum(_, _)
PositiveSum(track, i) ==
    IF i = 0 THEN <<Rat(0), 0>>
    ELSE LET r == PositiveSum(track, i - 1)
         IN  IF RLt(Rat(0), track[i].velocity)
             THEN <<RAdd(r[1], track[i].velocity), r[2] + 1>>
             ELSE r

AvgSpeed(track) ==
    LET r == PositiveSum(track, Len(track))
    IN  IF r[2] > 0 THEN RDiv(r[1], Rat(r[2])) ELSE Rat(0)

\* the sprint-counting loop: number of maximal runs of sprinting points
RECURSIVE SprintCount(_, _)
SprintCount(track, i) ==
    IF i = 0 THEN 0
    ELSE SprintCount(track, i - 1)
         + (IF track[i].is_sprinting /\ (i = 1 \/ ~track[i - 1].is_sprinting) THEN 1 ELSE 0)

PlayerStats(t) ==
    LET track == t.points
        coords == Tup([i \in 1..Len(track) |->
                          <<OrElse(track[i].xm_smooth, track[i].xm),
                            OrElse(track[i].ym_smooth, track[i].ym)>>])
    IN  [player_id |-> t.pid,
         total_distance |-> Round2(TotalDistance(coords, Len(track) - 1)),
         max_speed |-> Round2(MaxVelocity(track, Len(track))),
         avg_speed |-> Round2(AvgSpeed(track)),
         sprints |-> SprintCount(track, Len(track)),
         team |-> track[1].team,
         track_duration |-> Round2(RSub(track[Len(track)].timestamp, track[1].timestamp)),
         frames_tracked |-> Len(track)]

RECURSIVE compute_player_stats(_)
compute_player_stats(trks) ==
    IF trks = <<>> THEN <<>>
    ELSE LET t == Head(trks)
             rest == compute_player_stats(Tail(trks))
         IN  IF t.points = <<>> \/ t.points[1].xm = None THEN rest
             ELSE <<PlayerStats(t)>> \o rest

(***************************************************************************)
(* Event detection over whole tracks: the frame index shared by            *)
(* detect_pressing_events and PassDetector.detect_passes, and the pressing *)
(* detector.                                                               *)
(***************************************************************************)
pressing_distance_m == <<7, 2>>
pressing_speed_threshold_ms == <<5, 2>>

RECURSIVE FramesOf(_)
FramesOf(trks) ==
    IF trks = <<>> THEN {}
    ELSE {Head(trks).points[i].frame : i \in
             {j \in 1..Len(Head(trks).points) : Head(trks).points[j].xm_smooth # None}}
         \cup FramesOf(Tail(trks))

AsPlayer(pid, pt) ==
    [pid |-> pid, x |-> pt.xm_smooth, y |-> pt.ym_smooth, team |-> pt.team,
     velocity |-> pt.velocity, timestamp |-> pt.timestamp]

RECURSIVE PointsAt(_, _, _)
PointsAt(pid, pts, frame) ==
    IF pts = <<>> THEN <<>>
    ELSE (IF Head(pts).frame = frame /\ Head(pts).xm_smooth # None
          THEN <<AsPlayer(pid, Head(pts))>> ELSE <<>>) \o PointsAt(pid, Tail(pts), frame)

\* frames_data[frame]: (pid, point) pairs in the tracks' iteration order
RECURSIVE PlayersAt(_, _)
PlayersAt(trks, frame) ==
    IF trks = <<>> THEN <<>>
    ELSE PointsAt(Head(trks).pid, Head(trks).points, frame) \o PlayersAt(Tail(trks), frame)

RECURSIVE OfTeam(_, _)
OfTeam(players, team) ==
    IF players = <<>> THEN <<>>
    ELSE (IF Head(players).team = team THEN <<Head(players)>> ELSE <<>>)
         \o OfTeam(Tail(players), team)

\* the test of the inner loop: dist < pressing_distance_m and
\* def_p.velocity > pressing_speed_threshold_ms
PressesAtThreshold(def_p, att_p) ==
    /\ RLe(Dist2(def_p.x, def_p.y, att_p.x, att_p.y), RSq(pressing_distance_m))
    /\ RLt(pressing_speed_threshold_ms, def_p.velocity)

Presses(def_p, att_p) ==
    /\ RLt(Dist2(def_p.x, def_p.y, att_p.x, att_p.y), RSq(pressing_distance_m))
    /\ RLt(pressing_speed_threshold_ms, def_p.velocity)

\* the double loop "defenders pressing attackers" of one frame
RECURSIVE PressLoop(_, _, _, _, _)
PressLoop(defs, atts, i, j, frame) ==
    IF i > Len(defs) THEN <<>>
    ELSE IF j > Len(atts) THEN PressLoop(defs, atts, i + 1, 1, frame)
    ELSE (IF Presses(defs[i], atts[j])
          THEN <<[frame |-> frame, timestamp |-> Round3(defs[i].timestamp),
                  defender_id |-> defs[i].pid, attacker_id |-> atts[j].pid]>>
          ELSE <<>>) \o PressLoop(defs, atts, i, j + 1, frame)

RECURSIVE PressFrames(_, _)
PressFrames(trks, frames) ==
    IF frames = <<>> THEN <<>>
    ELSE LET players == PlayersAt(trks, Head(frames))
             team_a == OfTeam(players, "A")
             team_b == OfTeam(players, "B")
         IN  PressLoop(team_a, team_b, 1, 1, Head(frames))
             \o PressLoop(team_b, team_a, 1, 1, Head(frames))
             \o PressFrames(trks, Tail(frames))

detect_pressing_events(trks) ==
    _deduplicate_events(PressFrames(trks, SeqOfSet(FramesOf(trks))))

(***************************************************************************)
(* SoccerMatchAnalyzer.analyze.  The detector, the tracker inside          *)
(* track_players and the video are outside this component: track_players   *)
(* returns any member of a family of tracks (or none, or raises), and any  *)
(* stage inside the try block may raise.  has_ball, network metrics,       *)
(* passing predictions, tactical alerts and the flattened positions are    *)
(* computed from the tracks and passes without changing them and are not   *)
(* carried in the result.                                                  *)
(***************************************************************************)
VideoFps == {1, 2, 4}
MoverSteps == {0, 1, 2, 4}
FrameStrides == {1, 2}
StaticXs == {1, 30}

RawPoint(frame, fps, x, team, meters) ==
    [frame |-> frame, timestamp |-> Round3(RNorm(frame, fps)),
     xm |-> IF meters THEN Rat(x) ELSE None,
     ym |-> IF meters THEN Rat(0) ELSE None,
     xm_smooth |-> None, ym_smooth |-> None,
     velocity |-> Rat(0), acceleration |-> Rat(0),
     is_sprinting |-> FALSE, team |-> team]

\* a player who advances k metres per processed frame along the x axis
Mover(n, k, stride, fps, meters) ==
    [pid |-> 1,
     points |-> Tup([i \in 1..n |->
                       RawPoint((i - 1) * stride, fps, k * (i - 1), "A", meters)])]

\* a player who stands at x = c
Static(n, c, stride, fps, team) ==
    [pid |-> 2,
     points |-> Tup([i \in 1..n |-> RawPoint((i - 1) * stride, fps, c, team, TRUE)])]

TrackFamily(fps) ==
    {<<>>}
    \cup {<<Mover(n, k, stride, fps, meters)>> :
             n \in 1..MaxTrackPoints, k \in MoverSteps, stride \in FrameStrides,
             meters \in BOOLEAN}
    \cup {<<Mover(n, k, stride, fps, TRUE), Static(n, c, stride, fps, team)>> :
             n \in 1..MaxTrackPoints, k \in MoverSteps, stride \in FrameStrides,
             c \in StaticXs, team \in {"A", "B"}}
    \cup {<<Static(n, c, stride, fps, team), Mover(n, k, stride, fps, TRUE)>> :
             n \in 1..MaxTrackPoints, k \in MoverSteps, stride \in FrameStrides,
             c \in StaticXs, team \in {"A", "B"}}

\* "except Exception": the classes of the exceptions a stage raises
StageErrors == {"ProcessingError", "VideoError", "ValueError", "RuntimeError"}
CaughtAnalysisErrorOnly(errType) == errType \in {"ProcessingError", "VideoError"}
Caught(errType) == errType \in StageErrors

NoResult == [pending |-> TRUE]
FailureResult(errType) ==
    [success |-> FALSE, error |-> "message", error_type |-> errType]

\* an exception of class errType raised inside the try block
Raise(errType) ==
    /\ apc' = "end"
    /\ IF Caught(errType)
       THEN a_result' = FailureResult(errType) /\ a_out' = "returned"
       ELSE a_result' = NoResult /\ a_out' = "raised"
    /\ UNCHANGED <<a_fps, a_raw, a_tracks, a_stats, a_events, a_passes, a_pots, a_pi>>

Goto(next) ==
    /\ apc' = next
    /\ UNCHANGED <<a_result, a_out>>

\* load_model (may raise ProcessingError) and load_roboflow_model (never raises)
LoadModels ==
    /\ apc = "start"
    /\ \/ Raise("ProcessingError")
       \/ Goto("homography") /\ UNCHANGED <<a_fps, a_raw, a_tracks, a_stats, a_events, a_passes, a_pots, a_pi>>

\* homography from the given string, else auto-calibration inside its own
\* try/except: neither lets an exception out
SetupHomography ==
    /\ apc = "homography"
    /\ Goto("validate")
    /\ UNCHANGED <<a_fps, a_raw, a_tracks, a_stats, a_events, a_passes, a_pots, a_pi>>

ValidateVideo ==
    /\ apc = "validate"
    /\ \/ Raise("VideoError")
       \/ /\ Goto("clips")
          /\ a_fps' \in VideoFps
          /\ UNCHANGED <<a_raw, a_tracks, a_stats, a_events, a_passes, a_pots, a_pi>>

ParseClips ==
    /\ apc = "clips"
    /\ \/ \E e \in {"ValueError", "RuntimeError"} : Raise(e)
       \/ Goto("track") /\ UNCHANGED <<a_fps, a_raw, a_tracks, a_stats, a_events, a_passes, a_pots, a_pi>>

\* track_players, then "if not tracks: raise ProcessingError"
TrackPlayers ==
    /\ apc = "track"
    /\ \/ \E e \in {"VideoError", "RuntimeError"} : Raise(e)
       \/ \E trks \in TrackFamily(a_fps) :
             IF trks = <<>>
             THEN Raise("ProcessingError")
             ELSE /\ Goto("metrics")
                  /\ a_raw' = trks
                  /\ a_tracks' = trks
                  /\ UNCHANGED <<a_fps, a_stats, a_events, a_passes, a_pots, a_pi>>

ComputeMetrics ==
    /\ apc = "metrics"
    /\ \/ Raise("RuntimeError")
       \/ /\ Goto("stats")
          /\ a_tracks' = compute_metrics(a_tracks, Rat(a_fps))
          /\ UNCHANGED <<a_fps, a_raw, a_stats, a_events, a_passes, a_pots, a_pi>>

ComputeStats ==
    /\ apc = "stats"
    /\ \/ Raise("RuntimeError")
       \/ /\ Goto("pressing")
          /\ a_stats' = compute_player_stats(a_tracks)
          /\ UNCHANGED <<a_fps, a_raw, a_tracks, a_events, a_passes, a_pots, a_pi>>

\* detect_pressing_events, then the ball-possession pass
DetectPressing ==
    /\ apc = "pressing"
    /\ \/ Raise("RuntimeError")
       \/ /\ Goto("passes")
          /\ a_events' = detect_pressing_events(a_tracks)
          /\ UNCHANGED <<a_fps, a_raw, a_tracks, a_stats, a_passes, a_pots, a_pi>>

\* PassDetector(config).detect_passes: one iteration of its frame loop
DetectPassesFrame ==
    /\ apc = "passes"
    /\ LET frames == SeqOfSet(FramesOf(a_tracks))
       IN  /\ a_pi < Len(frames)
           /\ LET r == DetectFrame([pots |-> a_pots, passes |-> a_passes],
                                   PlayersAt(a_tracks, frames[a_pi + 1]), frames[a_pi + 1])
              IN  /\ a_pots' = r.pots
                  /\ a_passes' = r.passes
                  /\ a_pi' = a_pi + 1
    /\ UNCHANGED <<apc, a_fps, a_raw, a_tracks, a_stats, a_events, a_result, a_out>>

\* the end of detect_passes (the candidates are cleared), then the network
\* analysis
DetectPassesEnd ==
    /\ apc = "passes"
    /\ a_pi = Len(SeqOfSet(FramesOf(a_tracks)))
    /\ \/ Raise("RuntimeError")
       \/ /\ Goto("advanced")
          /\ a_pots' = <<>>
          /\ UNCHANGED <<a_fps, a_raw, a_tracks, a_stats, a_events, a_passes, a_pi>>

\* the advanced engines: an ImportError is swallowed, anything else leaves
\* the inner try
AdvancedAnalysis ==
    /\ apc = "advanced"
    /\ \/ Raise("RuntimeError")
       \/ Goto("video") /\ UNCHANGED <<a_fps, a_raw, a_tracks, a_stats, a_events, a_passes, a_pots, a_pi>>

\* the annotated video, generated inside its own try/except
GenerateVideo ==
    /\ apc = "video"
    /\ Goto("result")
    /\ UNCHANGED <<a_fps, a_raw, a_tracks, a_stats, a_events, a_passes, a_pots, a_pi>>

\* _flatten_tracks and the result dictionary
BuildResult ==
    /\ apc = "result"
    /\ \/ Raise("RuntimeError")
       \/ /\ apc' = "end"
          /\ a_result' = [success |-> TRUE, stats |-> a_stats, tracks |-> a_tracks,
                          events |-> a_events, passes |-> a_passes]
          /\ a_out' = "returned"
          /\ UNCHANGED <<a_fps, a_raw, a_tracks, a_stats, a_events, a_passes, a_pots, a_pi>>

AnalyzeInit ==
    /\ apc = "start"
    /\ a_fps = 1
    /\ a_raw = <<>>
    /\ a_tracks = <<>>
    /\ a_stats = <<>>
    /\ a_events = <<>>
    /\ a_passes = <<>>
    /\ a_pots = <<>>
    /\ a_pi = 0
    /\ a_result = NoResult
    /\ a_out = "running"

AnalyzeIdle ==
    /\ apc = "idle"
    /\ a_fps = 1
    /\ a_raw = <<>>
    /\ a_tracks = <<>>
    /\ a_stats = <<>>
    /\ a_events = <<>>
    /\ a_passes = <<>>
    /\ a_pots = <<>>
    /\ a_pi = 0
    /\ a_result = NoResult
    /\ a_out = "running"

(***************************************************************************)
(* HomographyTransform (soccer_analysis_core.py).                          *)
(*                                                                         *)
(* A float is a pair <<u, t>> standing for u + t * 1e-11, with t far below *)
(* 1e11 in every value the model builds, so that the pair is 0 only when   *)
(* both parts are 0 and the comparisons against 1e-10 and 1e-8 are exact.  *)
(* A matrix string is the sequence of the fields between its commas.       *)
(***************************************************************************)
near_zero_w == 10           \* 1e-10, in units of 1e-11
allclose_atol == 1000       \* numpy's default atol 1e-8, in units of 1e-11

FieldTexts == {"0", "1", "-1", " 1 ", "1e-11", "1e-10", "1e-9", "1e-8", "x", ""}

\* str.strip
strip(text) == IF text = " 1 " THEN "1" ELSE text

\* float(text): the value, or ValueError
float(text) ==
    CASE text = "0"     -> [ok |-> TRUE, value |-> <<0, 0>>]
      [] text = "1"     -> [ok |-> TRUE, value |-> <<1, 0>>]
      [] text = "-1"    -> [ok |-> TRUE, value |-> <<-1, 0>>]
      [] text = "1e-11" -> [ok |-> TRUE, value |-> <<0, 1>>]
      [] text = "1e-10" -> [ok |-> TRUE, value |-> <<0, 10>>]
      [] text = "1e-9"  -> [ok |-> TRUE, value |-> <<0, 100>>]
      [] text = "1e-8"  -> [ok |-> TRUE, value |-> <<0, 1000>>]
      [] OTHER          -> [ok |-> FALSE, value |-> <<0, 0>>]

FAdd(p, q) == <<p[1] + q[1], p[2] + q[2]>>
FScale(p, k) == <<p[1] * k, p[2] * k>>
FIsZero(p) == p[1] = 0 /\ p[2] = 0
\* abs(p) < t * 1e-11 and abs(p) <= t * 1e-11
FAbsBelow(p, t) == p[1] = 0 /\ Abs(p[2]) < t
FAbsAtMost(p, t) == p[1] = 0 /\ Abs(p[2]) <= t

\* np.allclose(matrix, 0): every |entry - 0| <= atol + rtol * |0|
allclose_zero(values) ==
    \A i \in 1..Len(values) : FAbsAtMost(values[i], allclose_atol)

\* cls(None)
DisabledTransform == [enabled |-> FALSE, matrix |-> <<>>]

\* cls(matrix) for a 3x3 matrix: __init__ with _validate_matrix, which raises
\* ValueError for a matrix that allclose takes for zero
HomographyTransform(values) ==
    IF allclose_zero(values)
    THEN [raised |-> TRUE, obj |-> DisabledTransform]
    ELSE [raised |-> FALSE, obj |-> [enabled |-> TRUE, matrix |-> values]]

from_string(fields) ==
    LET parsed == [i \in 1..Len(fields) |-> float(strip(fields[i]))]
        values == [i \in 1..Len(fields) |-> parsed[i].value]
    IN  IF \E i \in 1..Len(fields) : ~parsed[i].ok THEN DisabledTransform
        ELSE IF Len(fields) # 9 THEN DisabledTransform
        ELSE IF HomographyTransform(values).raised THEN DisabledTransform
        ELSE HomographyTransform(values).obj

\* row i of np.dot(matrix, [x, y, 1.0])
DotRow(matrix, i, x, y) ==
    FAdd(FAdd(FScale(matrix[3 * i - 2], x), FScale(matrix[3 * i - 1], y)),
         matrix[3 * i])

\* (x, y) as returned unchanged; a coordinate is <<numerator, divisor>>
Unchanged(x, y) == << <<<<x, 0>>, <<1, 0>>>>, <<<<y, 0>>, <<1, 0>>>> >>

NearZeroExact(w) == FIsZero(w)
NearZero(w) == FAbsBelow(w, near_zero_w)

transform(h, x, y) ==
    IF ~h.enabled THEN Unchanged(x, y)
    ELSE LET w == DotRow(h.matrix, 3, x, y)
         IN  IF NearZero(w) THEN Unchanged(x, y)
             ELSE << <<DotRow(h.matrix, 1, x, y), w>>,
                     <<DotRow(h.matrix, 2, x, y), w>> >>

MatrixRows ==
    { <<"1", "0", "0">>, <<"0", " 1 ", "0">>, <<"0", "0", "1">>,
      <<"0", "0", "0">>, <<"-1", "0", "1">>, <<"0", "0", "1e-11">>,
      <<"0", "0", "1e-10">>, <<"1e-9", "1e-8", "1e-9">>, <<"x", "0", "0">>,
      <<"0", "", "1">> }
MatrixStrings ==
    {<<"">>}
    \cup {r1 \o r2 \o r3 : r1 \in MatrixRows, r2 \in MatrixRows, r3 \in MatrixRows}
    \cup {SubSeq(r1 \o r1 \o r3, 1, 8) : r1 \in MatrixRows, r3 \in MatrixRows}
    \cup {r1 \o r1 \o r3 \o <<"1">> : r1 \in MatrixRows, r3 \in MatrixRows}
PixelCoords == {-1, 0, 1, 2}

FromString ==
    /\ hm_pc = "new"
    /\ hm_obj' = from_string(hm_str)
    /\ hm_pc' = "built"
    /\ UNCHANGED <<hm_str, hm_point, hm_out>>

Transform ==
    /\ hm_pc = "built"
    /\ \E x \in PixelCoords, y \in PixelCoords :
         /\ hm_point' = <<x, y>>
         /\ hm_out' = transform(hm_obj, x, y)
    /\ UNCHANGED <<hm_str, hm_obj, hm_pc>>

HomInit ==
    /\ hm_str \in MatrixStrings
    /\ hm_obj = DisabledTransform
    /\ hm_point = <<>>
    /\ hm_out = <<>>
    /\ hm_pc = "new"

HomIdle ==
    /\ hm_str = <<>>
    /\ hm_obj = DisabledTransform
    /\ hm_point = <<>>
    /\ hm_out = <<>>
    /\ hm_pc = "idle"

(***************************************************************************)
(* One SoccerMatchAnalyzer serving analyze calls: the setup stages of      *)
(* analyze (calibration, validate_video, parse_clips) and the frame loop   *)
(* of track_players, one action per loop iteration.  The video has         *)
(* MaxVideoFrames frames at 1 fps.  The tracker behind sv_tracker /        *)
(* model.track(persist=True) is a library: it numbers its tracks from a    *)
(* counter it keeps, and whether a detection continues the track it holds  *)
(* or starts a new one is its choice.  A frame that reaches the tracker    *)
(* shows one player and the ball.                                          *)
(***************************************************************************)
job_fps == 1
FreshTracker == [next |-> 1, live |-> 0]

\* clips arguments: None, one clip, two overlapping clips out of order, a
\* clip without 'end', alone and after a good one, and a clip that ends
\* before it starts
\* a clip dictionary with start and end in seconds
Clip(s, e) == [start |-> Rat(s), end |-> Rat(e)]

ClipLists ==
    { <<>>,
      <<Clip(0, 2)>>,
      <<Clip(1, MaxVideoFrames), Clip(0, 2)>>,
      <<[start |-> Rat(1)]>>,
      <<Clip(0, 2), [start |-> Rat(1)]>>,
      <<Clip(2, 1), Clip(0, MaxVideoFrames)>> }
JobMatrices ==
    { <<>>,
      << <<"1", "0", "0", "0", "1", "0", "0", "0", "1">> >>,
      << <<"1", "0", "0", "0", "x", "0", "0", "0", "1">> >> }
AutoCalibrated == [enabled |-> TRUE, matrix |-> [i \in 1..9 |-> float("1").value]]

\* parse_clips over the clips from the i-th on
RECURSIVE ClipRanges(_, _, _, _)
ClipRanges(clips_data, fps, total_frames, i) ==
    IF i > Len(clips_data) THEN <<>>
    ELSE LET clip == clips_data[i]
             rest == ClipRanges(clips_data, fps, total_frames, i + 1)
         IN  IF ~({"start", "end"} \subseteq DOMAIN clip) THEN rest
             ELSE IF clip.start = None \/ clip.end = None THEN rest
             ELSE LET start == Max(0, int(RMul(clip.start, fps)))
                      end == Min(total_frames, int(RMul(clip.end, fps)))
                  IN  IF start >= end THEN rest
                      ELSE <<<<start, end>>>> \o rest

parse_clips_no_fallback(clips_data, fps, total_frames) ==
    IF clips_data = <<>> THEN <<<<0, total_frames>>>>
    ELSE ClipRanges(clips_data, fps, total_frames, 1)

parse_clips(clips_data, fps, total_frames) ==
    IF clips_data = <<>> THEN <<<<0, total_frames>>>>
    ELSE LET ranges == ClipRanges(clips_data, fps, total_frames, 1)
         IN  IF ranges # <<>> THEN ranges ELSE <<<<0, total_frames>>>>

\* what the tracker may answer for the player of a frame: <<id, tracker after>>
TrackerAnswers(tr) ==
    {<<tr.live, tr>> : x \in {y \in {1} : tr.live # 0}}
    \cup {<<tr.next, [next |-> tr.next + 1, live |-> tr.next]>> :
              x \in {y \in {1} : tr.next <= MaxTrackIds}}

PlayerKey(id) == <<"id", id>>
BallKey(frame) == <<"ball", frame>>

JobReset ==
    /\ j_ranges' = <<>>
    /\ j_ri' = 0
    /\ j_frame_idx' = 0
    /\ j_tracks' = <<>>
    /\ j_processed' = <<>>
    /\ j_cap' = "none"
    /\ j_stop' = FALSE

\* a caller invokes analyze on the analyzer
StartJob ==
    /\ j_pc \in {"new", "returned", "failed"}
    /\ j_req = <<>>
    /\ j_jobs < MaxJobs
    /\ j_jobs' = j_jobs + 1
    /\ j_matrix' \in JobMatrices
    /\ j_clips' \in ClipLists
    /\ j_unreadable' \in {{}} \cup {{f} : f \in 0..(MaxVideoFrames - 1)}
    /\ JobReset
    /\ j_pc' = "calibrate"
    /\ UNCHANGED <<j_frame_skip, j_homography, j_tracker, j_req>>

\* "Setup homography": from the string when one is given, else possibly by
\* auto-calibration when a keypoint model is loaded
SetupCalibration ==
    /\ j_pc = "calibrate"
    /\ IF j_matrix # <<>>
       THEN j_homography' = <<from_string(j_matrix[1])>>
       ELSE j_homography' \in {j_homography, <<AutoCalibrated>>}
    /\ j_pc' = "validate"
    /\ UNCHANGED <<j_frame_skip, j_tracker, j_jobs, j_matrix, j_clips, j_unreadable,
                   j_ranges, j_ri, j_frame_idx, j_tracks, j_processed, j_cap, j_stop, j_req>>

\* validate_video raises VideoError or returns the metadata; then parse_clips
\* and the opening of the capture in track_players
ValidateAndParse ==
    /\ j_pc = "validate"
    /\ \/ /\ j_pc' = "failed"
          /\ UNCHANGED <<j_ranges, j_ri, j_cap>>
       \/ /\ j_ranges' = parse_clips(j_clips, Rat(job_fps), MaxVideoFrames)
          /\ j_ri' = 0
          /\ j_cap' = "open"
          /\ j_pc' = "range"
    /\ UNCHANGED <<j_frame_skip, j_homography, j_tracker, j_jobs, j_matrix, j_clips,
                   j_unreadable, j_frame_idx, j_tracks, j_processed, j_stop, j_req>>

\* the for loop over processing_ranges: the next range, or the end of
\* track_players (finally: cap.release(); return dict(tracks))
NextRange ==
    /\ j_pc = "range"
    /\ IF j_ri < Len(j_ranges)
       THEN /\ j_ri' = j_ri + 1
            /\ j_frame_idx' = j_ranges[j_ri + 1][1]
            /\ j_pc' = "loop"
            /\ UNCHANGED j_cap
       ELSE /\ j_cap' = "released"
            /\ j_pc' = "returned"
            /\ UNCHANGED <<j_ri, j_frame_idx>>
    /\ UNCHANGED <<j_frame_skip, j_homography, j_tracker, j_jobs, j_matrix, j_clips,
                   j_unreadable, j_ranges, j_tracks, j_processed, j_stop, j_req>>

\* one iteration of "while frame_idx < end_frame"
FrameIteration ==
    /\ j_pc = "loop"
    /\ LET start_frame == j_ranges[j_ri][1]
           end_frame == j_ranges[j_ri][2]
       IN  IF ~(j_frame_idx < end_frame)
           THEN /\ j_pc' = "range"
                /\ UNCHANGED <<j_frame_idx, j_tracks, j_processed, j_tracker>>
           ELSE IF j_frame_idx \in j_unreadable
           THEN \* ret is False: break
                /\ j_pc' = "range"
                /\ UNCHANGED <<j_frame_idx, j_tracks, j_processed, j_tracker>>
           ELSE IF (j_frame_idx - start_frame) % j_frame_skip # 0
           THEN /\ j_frame_idx' = j_frame_idx + 1
                /\ UNCHANGED <<j_pc, j_tracks, j_processed, j_tracker>>
           ELSE \/ \* the tracking call raises: logged, the frame is passed over
                   /\ j_processed' = Append(j_processed, j_frame_idx)
                   /\ j_frame_idx' = j_frame_idx + 1
                   /\ UNCHANGED <<j_pc, j_tracks, j_tracker>>
                \/ \E answer \in TrackerAnswers(j_tracker) :
                       /\ j_tracker' = answer[2]
                       /\ j_tracks' = j_tracks \o
                              << <<PlayerKey(answer[1]), j_frame_idx>>,
                                 <<BallKey(j_frame_idx), j_frame_idx>> >>
                       /\ j_processed' = Append(j_processed, j_frame_idx)
                       /\ j_frame_idx' = j_frame_idx + 1
                       /\ UNCHANGED j_pc
    /\ UNCHANGED <<j_frame_skip, j_homography, j_jobs, j_matrix, j_clips,
                   j_unreadable, j_ranges, j_ri, j_cap, j_stop, j_req>>

\* one iteration of the while loop in which a call outside the tracking
\* try block (camera estimator, projection, team assignment, progress
\* callback) raises: the exception leaves the loops, finally: cap.release()
FrameIterationRaisesNoRelease ==
    /\ j_pc = "loop"
    /\ j_frame_idx < j_ranges[j_ri][2]
    /\ j_frame_idx \notin j_unreadable
    /\ (j_frame_idx - j_ranges[j_ri][1]) % j_frame_skip = 0
    /\ j_pc' = "failed"
    /\ UNCHANGED <<j_frame_skip, j_homography, j_tracker, j_jobs, j_matrix, j_clips,
                   j_unreadable, j_ranges, j_ri, j_frame_idx, j_tracks, j_processed,
                   j_cap, j_stop, j_req>>

FrameIterationRaises ==
    /\ j_pc = "loop"
    /\ j_frame_idx < j_ranges[j_ri][2]
    /\ j_frame_idx \notin j_unreadable
    /\ (j_frame_idx - j_ranges[j_ri][1]) % j_frame_skip = 0
    /\ j_cap' = "released"
    /\ j_pc' = "failed"
    /\ UNCHANGED <<j_frame_skip, j_homography, j_tracker, j_jobs, j_matrix, j_clips,
                   j_unreadable, j_ranges, j_ri, j_frame_idx, j_tracks, j_processed,
                   j_stop, j_req>>

\* the caller asks the running job to stop
RequestStop ==
    /\ j_pc \in {"range", "loop"}
    /\ ~j_stop
    /\ j_stop' = TRUE
    /\ UNCHANGED <<j_frame_skip, j_homography, j_tracker, j_jobs, j_matrix, j_clips,
                   j_unreadable, j_ranges, j_ri, j_frame_idx, j_tracks, j_processed,
                   j_cap, j_req, j_pc>>

\* the detect-players endpoint, when the analyzer is the global one that
\* serves these requests (it runs no analyze call): the request replaces the
\* calibration when it carries one and is projected with whatever
\* calibration the analyzer then holds
DetectPlayers ==
    /\ j_pc = "new"
    /\ j_jobs = 0
    /\ \E homography \in JobMatrices :
         LET held == IF homography # <<>> THEN <<from_string(homography[1])>>
                     ELSE j_homography
         IN  /\ j_homography' = held
             /\ j_req' = <<[homography |-> homography, used |-> held]>>
    /\ UNCHANGED <<j_frame_skip, j_tracker, j_jobs, j_matrix, j_clips, j_unreadable,
                   j_ranges, j_ri, j_frame_idx, j_tracks, j_processed, j_cap, j_stop,
                   j_pc>>

JobInit ==
    /\ j_frame_skip \in {1, 2}
    /\ j_homography = <<>>
    /\ j_tracker = FreshTracker
    /\ j_jobs = 0
    /\ j_matrix = <<>>
    /\ j_clips = <<>>
    /\ j_unreadable = {}
    /\ j_ranges = <<>>
    /\ j_ri = 0
    /\ j_frame_idx = 0
    /\ j_tracks = <<>>
    /\ j_processed = <<>>
    /\ j_cap = "none"
    /\ j_stop = FALSE
    /\ j_req = <<>>
    /\ j_pc = "new"

JobIdle ==
    /\ j_frame_skip = 1
    /\ j_homography = <<>>
    /\ j_tracker = FreshTracker
    /\ j_jobs = 0
    /\ j_matrix = <<>>
    /\ j_clips = <<>>
    /\ j_unreadable = {}
    /\ j_ranges = <<>>
    /\ j_ri = 0
    /\ j_frame_idx = 0
    /\ j_tracks = <<>>
    /\ j_processed = <<>>
    /\ j_cap = "none"
    /\ j_stop = FALSE
    /\ j_req = <<>>
    /\ j_pc = "idle"

(***************************************************************************)
(* tactabot.py: the get_db context manager and the users table.  A row is  *)
(* a record; user_id is the PRIMARY KEY.  Each function opens its own      *)
(* connection with get_db and commits before it leaves the block, so a     *)
(* call is one step on the table.                                          *)
(***************************************************************************)
default_trust_score == 50
default_xp == 0
UserIds == {1, 2}
Usernames == {"ann", "bob"}

RowsOf(rows, user_id) == {r \in rows : r.user_id = user_id}

\* INSERT INTO users (user_id, username, trust_score, xp, monthly_xp)
\* VALUES (?, ?, 50, 0, 0)
InsertedUser(user_id, username) ==
    [user_id |-> user_id, username |-> username,
     trust_score |-> default_trust_score, xp |-> default_xp, monthly_xp |-> 0]

ensure_user_exists_replacing(rows, user_id, username) ==
    (rows \ RowsOf(rows, user_id)) \cup {InsertedUser(user_id, username)}

\* SELECT user_id ...; if not c.fetchone(): INSERT ...; commit
ensure_user_exists(rows, user_id, username) ==
    IF RowsOf(rows, user_id) # {} THEN rows
    ELSE rows \cup {InsertedUser(user_id, username)}

\* update_trust_score: UPDATE users SET trust_score = ... WHERE user_id = ?
update_trust_score(rows, user_id, was_correct, is_spam) ==
    {IF r.user_id # user_id THEN r
     ELSE IF is_spam THEN [r EXCEPT !.trust_score = Max(0, @ - 5)]
     ELSE IF was_correct THEN [r EXCEPT !.trust_score = Min(100, @ + 1)]
     ELSE [r EXCEPT !.trust_score = Max(0, @ - 2)] : r \in rows}

EnsureUser ==
    /\ db_where = "outside"
    /\ db_ops < MaxDbOps
    /\ \E user_id \in UserIds, username \in Usernames :
         /\ db_users' = ensure_user_exists(db_users, user_id, username)
         /\ db_last' = [op |-> "ensure", user_id |-> user_id,
                        username |-> username, before |-> db_users]
    /\ db_ops' = db_ops + 1
    /\ UNCHANGED <<db_conn, db_where, db_exit, db_after>>

UpdateTrust ==
    /\ db_where = "outside"
    /\ db_ops < MaxDbOps
    /\ \E user_id \in UserIds, was_correct \in BOOLEAN, is_spam \in BOOLEAN :
         /\ db_users' = update_trust_score(db_users, user_id, was_correct, is_spam)
         /\ db_last' = [op |-> "trust", user_id |-> user_id,
                        username |-> "", before |-> db_users]
    /\ db_ops' = db_ops + 1
    /\ UNCHANGED <<db_conn, db_where, db_exit, db_after>>

\* finally: conn.close()
CloseOnNormalExitOnly(how) == IF how = "normal" THEN "closed" ELSE "open"
CloseOnExit(how) == "closed"

\* with get_db() as conn: sqlite3.connect, then yield conn
EnterBlock ==
    /\ db_where = "outside"
    /\ db_conn' = "open"
    /\ db_where' = "inside"
    /\ db_exit' = "none"
    /\ db_after' = "none"
    /\ UNCHANGED <<db_users, db_last, db_ops>>

\* the body ends, normally or by an exception that leaves the block
LeaveBlock ==
    /\ db_where = "inside"
    /\ \E how \in {"normal", "exception"} :
         /\ db_conn' = CloseOnExit(how)
         /\ db_exit' = how
    /\ db_where' = "outside"
    /\ UNCHANGED <<db_users, db_last, db_ops, db_after>>

\* conn.execute(...) on the connection object kept from the block
UseConnection ==
    /\ db_where = "outside"
    /\ db_conn # "none"
    /\ db_after' = IF db_conn = "closed" THEN "ProgrammingError" ELSE "executed"
    /\ UNCHANGED <<db_users, db_last, db_ops, db_conn, db_where, db_exit>>

NoDbCall == [op |-> "none", user_id |-> 0, username |-> "", before |-> {}]

DbInit ==
    /\ db_users = {}
    /\ db_last = NoDbCall
    /\ db_ops = 0
    /\ db_conn = "none"
    /\ db_where = "outside"
    /\ db_exit = "none"
    /\ db_after = "none"

DbIdle ==
    /\ db_users = {}
    /\ db_last = NoDbCall
    /\ db_ops = 0
    /\ db_conn = "none"
    /\ db_where = "idle"
    /\ db_exit = "none"
    /\ db_after = "none"

(***************************************************************************)
(* PassingNetworkAnalyzer (soccer_analysis_processor.py): the pass graph   *)
(* and its triangles.  A graph is [keys, count]: keys lists the outer      *)
(* dict's keys (the passers) in insertion order, count[p][q] is            *)
(* graph[p][q], and q is in graph.get(p, {}) exactly when count[p][q] > 0. *)
(***************************************************************************)
NetworkPlayers == {1, 2, 3}
max_triangles == 10

EmptyGraph ==
    [keys |-> <<>>, count |-> [p \in NetworkPlayers |-> [q \in NetworkPlayers |-> 0]]]

InSeq(seq, v) == \E i \in 1..Len(seq) : seq[i] = v

\* _build_graph: graph[passer][receiver] += 1 for every pass, in order
RECURSIVE _build_graph(_)
_build_graph(ps) ==
    IF ps = <<>> THEN EmptyGraph
    ELSE LET graph == _build_graph(SubSeq(ps, 1, Len(ps) - 1))
             passer == ps[Len(ps)][1]
             receiver == ps[Len(ps)][2]
         IN  [keys |-> IF InSeq(graph.keys, passer) THEN graph.keys
                       ELSE Append(graph.keys, passer),
              count |-> [graph.count EXCEPT ![passer][receiver] = @ + 1]]

\* q in graph.get(p, {})
HasPass(graph, p, q) == graph.count[p][q] > 0

\* the test of the innermost loop of _find_triangles
IsTriangle(graph, p1, p2, p3) ==
    HasPass(graph, p1, p2) /\ HasPass(graph, p2, p3) /\ HasPass(graph, p3, p1)

\* the three nested loops of _find_triangles over players[i], players[j],
\* players[k] with i < j < k
RECURSIVE TriangleLoop(_, _, _, _, _)
TriangleLoop(graph, i, j, k, triangles) ==
    LET players == graph.keys
    IN  IF i > Len(players) THEN triangles
        ELSE IF j > Len(players) THEN TriangleLoop(graph, i + 1, i + 2, i + 3, triangles)
        ELSE IF k > Len(players) THEN TriangleLoop(graph, i, j + 1, j + 2, triangles)
        ELSE TriangleLoop(graph, i, j, k + 1,
                 IF IsTriangle(graph, players[i], players[j], players[k])
                 THEN Append(triangles, <<players[i], players[j], players[k]>>)
                 ELSE triangles)

_find_triangles(graph) ==
    LET triangles == TriangleLoop(graph, 1, 2, 3, <<>>)
    IN  SubSeq(triangles, 1, IF Len(triangles) < max_triangles THEN Len(triangles)
                             ELSE max_triangles)

\* _calculate_centrality: (out-degree + in-degree) / max_degree, rounded to
\* 3 decimals, for every passer and receiver of the graph
AllPlayers(graph) ==
    {graph.keys[i] : i \in 1..Len(graph.keys)}
    \cup {q \in NetworkPlayers : \E i \in 1..Len(graph.keys) : HasPass(graph, graph.keys[i], q)}

MaxDegree(graph) ==
    IF Cardinality(AllPlayers(graph)) > 1 THEN Cardinality(AllPlayers(graph)) - 1 ELSE 1

OutDegree(graph, player) ==
    Cardinality({q \in NetworkPlayers : HasPass(graph, player, q)})

InDegree(graph, player) ==
    Cardinality({i \in 1..Len(graph.keys) : HasPass(graph, graph.keys[i], player)})

_calculate_centrality(graph) ==
    {<<player,
       IF MaxDegree(graph) > 0
       THEN Round3(RDiv(Rat(OutDegree(graph, player) + InDegree(graph, player)),
                        Rat(MaxDegree(graph))))
       ELSE Rat(0)>> : player \in AllPlayers(graph)}

PassLists ==
    UNION {[1..n -> {<<p, q>> \in NetworkPlayers \X NetworkPlayers : p # q}] :
              n \in 0..MaxPasses}

\* analyze_network for one team: no passes give the empty metrics
AnalyzeNetwork ==
    /\ nw_pc = "new"
    /\ nw_graph' = _build_graph(nw_passes)
    /\ nw_triangles' = IF nw_passes = <<>> THEN <<>>
                       ELSE _find_triangles(_build_graph(nw_passes))
    /\ nw_centrality' = IF nw_passes = <<>> THEN {}
                        ELSE _calculate_centrality(_build_graph(nw_passes))
    /\ nw_pc' = "done"
    /\ UNCHANGED nw_passes

NetInit ==
    /\ nw_passes \in PassLists
    /\ nw_graph = EmptyGraph
    /\ nw_triangles = <<>>
    /\ nw_centrality = {}
    /\ nw_pc = "new"

NetIdle ==
    /\ nw_passes = <<>>
    /\ nw_graph = EmptyGraph
    /\ nw_triangles = <<>>
    /\ nw_centrality = {}
    /\ nw_pc = "idle"

(***************************************************************************)
(* detect_pressing_events on its own: the tracks of up to three players    *)
(* over one or two frames.                                                 *)
(***************************************************************************)
PressPoint(frame, ts, x, team, vel) ==
    [frame |-> frame, timestamp |-> ts, xm_smooth |-> x,
     ym_smooth |-> IF x = None THEN None ELSE Rat(0), team |-> team, velocity |-> vel]

\* the points of one frame: player 1 at the origin, player 2 up to
\* pressing_distance_m away or without smoothed coordinates, player 3 (if
\* tracked) next to player 1
PressFramePoints ==
    {<<p1, p2, p3>> :
        p1 \in [x : {Rat(0)}, team : Teams, velocity : {pressing_speed_threshold_ms, Rat(3)}],
        p2 \in [x : {None, Rat(3), pressing_distance_m}, team : Teams,
                velocity : {Rat(2), Rat(3)}],
        p3 \in {<<>>, [x |-> Rat(1), team |-> "B", velocity |-> Rat(3)]}}

\* the tracks over the frames 1..Len(times), every frame with the same points
PressTracks(pts, times) ==
    LET TrackOfPlayer(pid) ==
            [pid |-> pid,
             points |-> Tup([f \in 1..Len(times) |->
                            PressPoint(f, times[f], pts[pid].x, pts[pid].team,
                                       pts[pid].velocity)])]
    IN  <<TrackOfPlayer(1), TrackOfPlayer(2)>>
        \o (IF pts[3] = <<>> THEN <<>> ELSE <<TrackOfPlayer(3)>>)

PressTimes == {<<Rat(0)>>, <<Rat(0), <<1, 2>>>>, <<Rat(0), <<3, 2>>>>}

\* detect_pressing_events: the frame loop, then _deduplicate_events
DetectPressingEvents ==
    /\ pr_pc = "new"
    /\ pr_raw' = PressFrames(pr_tracks, SeqOfSet(FramesOf(pr_tracks)))
    /\ pr_events' = detect_pressing_events(pr_tracks)
    /\ pr_pc' = "done"
    /\ UNCHANGED pr_tracks

PressInit ==
    /\ pr_tracks \in {PressTracks(pts, times) : pts \in PressFramePoints, times \in PressTimes}
    /\ pr_raw = <<>>
    /\ pr_events = <<>>
    /\ pr_pc = "new"

PressIdle ==
    /\ pr_tracks = <<>>
    /\ pr_raw = <<>>
    /\ pr_events = <<>>
    /\ pr_pc = "idle"

(***************************************************************************)
(* HomographyTransform used there and back: transform with H, then with    *)
(* the inverse of H.  H is scale * m for a matrix m of integers with       *)
(* determinant 1 or -1 (so that its inverse is a matrix of integers too),  *)
(* and the scale 1 or 1e-9; the pixel points are those that H maps to      *)
(* integers, so that both steps are exact.                                 *)
(***************************************************************************)
IntRows ==
    { <<1, 0, 0>>, <<0, 1, 0>>, <<0, 0, 1>>, <<1, 0, 1>>, <<-1, 0, 1>>,
      <<1, 1, 0>>, <<0, 1, 1>> }

Det(m) ==
    m[1] * (m[5] * m[9] - m[6] * m[8])
    - m[2] * (m[4] * m[9] - m[6] * m[7])
    + m[3] * (m[4] * m[8] - m[5] * m[7])

\* the inverse of a matrix of determinant 1 or -1: its adjugate times Det
IntInverse(m) ==
    LET d == Det(m)
    IN  << d * (m[5] * m[9] - m[6] * m[8]), d * (m[3] * m[8] - m[2] * m[9]),
           d * (m[2] * m[6] - m[3] * m[5]),
           d * (m[6] * m[7] - m[4] * m[9]), d * (m[1] * m[9] - m[3] * m[7]),
           d * (m[3] * m[4] - m[1] * m[6]),
           d * (m[4] * m[8] - m[5] * m[7]), d * (m[2] * m[7] - m[1] * m[8]),
           d * (m[1] * m[5] - m[2] * m[4]) >>

WellConditioned ==
    [scale : {"1", "1e-9"},
     m : {m \in {r1 \o r2 \o r3 : r1 \in IntRows, r2 \in IntRows, r3 \in IntRows} :
             Det(m) \in {1, -1}}]

\* the entries of scale * m as floats
MatrixValues(h) ==
    [i \in 1..9 |-> IF h.scale = "1" THEN <<h.m[i], 0>> ELSE <<0, 100 * h.m[i]>>]

\* the entries of the inverse of scale * m, which is (1 / scale) * IntInverse(m)
InverseValues(h) ==
    [i \in 1..9 |-> IF h.scale = "1" THEN <<IntInverse(h.m)[i], 0>>
                    ELSE <<1000000000 * IntInverse(h.m)[i], 0>>]

\* a coordinate <<numerator, divisor>> that is an integer, and that integer
Quotients == -8..8
IsInteger(c) ==
    /\ c[1][2] = 0 /\ c[2][2] = 0
    /\ \E q \in Quotients : q * c[2][1] = c[1][1]
IntegerOf(c) == CHOOSE q \in Quotients : q * c[2][1] = c[1][1]

\* HomographyTransform(H) and its transform of a pixel point
Forward ==
    /\ rt_pc = "new"
    /\ LET h == HomographyTransform(MatrixValues(rt_matrix))
       IN  \/ /\ h.raised
              /\ rt_pc' = "raised"
              /\ UNCHANGED <<rt_point, rt_fwd>>
           \/ /\ ~h.raised
              /\ \E x \in PixelCoords, y \in PixelCoords :
                    LET out == transform(h.obj, x, y)
                    IN  /\ IsInteger(out[1]) /\ IsInteger(out[2])
                        /\ rt_point' = <<x, y>>
                        /\ rt_fwd' = <<IntegerOf(out[1]), IntegerOf(out[2])>>
              /\ rt_pc' = "forward"
    /\ UNCHANGED <<rt_matrix, rt_back>>

\* HomographyTransform(inverse of H) and its transform of the point in metres
Backward ==
    /\ rt_pc = "forward"
    /\ LET h == HomographyTransform(InverseValues(rt_matrix))
       IN  \/ /\ h.raised
              /\ rt_pc' = "raised"
              /\ UNCHANGED rt_back
           \/ /\ ~h.raised
              /\ rt_back' = transform(h.obj, rt_fwd[1], rt_fwd[2])
              /\ rt_pc' = "back"
    /\ UNCHANGED <<rt_matrix, rt_point, rt_fwd>>

RoundInit ==
    /\ rt_matrix \in WellConditioned
    /\ rt_point = <<>>
    /\ rt_fwd = <<>>
    /\ rt_back = <<>>
    /\ rt_pc = "new"

RoundIdle ==
    /\ rt_matrix = [scale |-> "1", m |-> <<1, 0, 0, 0, 1, 0, 0, 0, 1>>]
    /\ rt_point = <<>>
    /\ rt_fwd = <<>>
    /\ rt_back = <<>>
    /\ rt_pc = "idle"

(***************************************************************************)
(* Track.features on its own: a track over a long run of Track.update      *)
(* calls, each with or without an embedding.  The n-th embedding handed to *)
(* the track is written <<n>>.                                             *)
(***************************************************************************)
\* the end of Track.update: append, then pop(0) above max_features
StoreFeatureNoEviction(features, feature) ==
    IF feature = None THEN features ELSE Append(features, feature)

StoreFeature(features, feature) ==
    IF feature = None THEN features
    ELSE LET appended == Append(features, feature)
         IN  IF Len(appended) > max_features THEN Tail(appended) ELSE appended

\* Track.update(box, score, feature)
UpdateWithFeature ==
    /\ fb_pc = "live"
    /\ fb_updates < MaxUpdates
    /\ \E given \in BOOLEAN :
          /\ fb_features' = StoreFeature(fb_features, IF given THEN <<fb_added + 1>> ELSE None)
          /\ fb_added' = IF given THEN fb_added + 1 ELSE fb_added
    /\ fb_updates' = fb_updates + 1
    /\ UNCHANGED fb_pc

\* Track.__init__(track_id, box, score, feature)
FeatInit ==
    /\ \E given \in BOOLEAN :
          /\ fb_features = IF given THEN << <<1>> >> ELSE <<>>
          /\ fb_added = IF given THEN 1 ELSE 0
    /\ fb_updates = 0
    /\ fb_pc = "live"

FeatIdle ==
    /\ fb_features = <<>>
    /\ fb_added = 0
    /\ fb_updates = 0
    /\ fb_pc = "idle"

(***************************************************************************)
(* XThreatGrid (soccer_analysis_core.py).  Coordinates are exact rationals *)
(* (metres); grid values are in thousandths.                               *)
(***************************************************************************)
field_length == 105
field_width == 68
grid_cols == 12
grid_rows == 8

grid ==
    << <<5, 10, 15, 20, 30, 40, 60, 80, 120, 180, 250, 350>>,
       <<8, 15, 20, 30, 50, 70, 100, 150, 220, 300, 400, 500>>,
       <<10, 20, 30, 50, 80, 120, 180, 250, 350, 450, 550, 650>>,
       <<12, 25, 40, 70, 120, 180, 250, 350, 450, 550, 650, 750>>,
       <<12, 25, 40, 70, 120, 180, 250, 350, 450, 550, 650, 750>>,
       <<10, 20, 30, 50, 80, 120, 180, 250, 350, 450, 550, 650>>,
       <<8, 15, 20, 30, 50, 70, 100, 150, 220, 300, 400, 500>>,
       <<5, 10, 15, 20, 30, 40, 60, 80, 120, 180, 250, 350>> >>

\* np.clip(q, lo, hi)
np_clip(q, lo, hi) == RMax(Rat(lo), RMin(Rat(hi), q))

\* get_value(x, y): grid[row, col], 0-based in the source
get_value(x, y) ==
    LET col == int(np_clip(RDiv(x, RNorm(field_length, grid_cols)), 0, grid_cols - 1))
        row == int(np_clip(RDiv(y, RNorm(field_width, grid_rows)), 0, grid_rows - 1))
    IN  grid[row + 1][col + 1]

XtXs == {Rat(-5), Rat(0), Rat(8), <<35, 4>>, Rat(50), Rat(96), <<385, 4>>, Rat(105), Rat(200)}
XtYs == {Rat(-1), Rat(0), <<17, 2>>, Rat(30), <<119, 2>>, Rat(68), Rat(100)}

GetValue ==
    /\ xt_pc = "ready"
    /\ \E x \in XtXs, y \in XtYs :
          xt_calls' = (IF xt_calls = <<>> THEN <<>> ELSE <<xt_calls[Len(xt_calls)]>>)
                      \o <<[x |-> x, y |-> y, value |-> get_value(x, y)]>>
    /\ UNCHANGED xt_pc

XtInit ==
    /\ xt_calls = <<>>
    /\ xt_pc = "ready"

XtIdle ==
    /\ xt_calls = <<>>
    /\ xt_pc = "idle"

(***************************************************************************)
(* SoccerMatchAnalyzer.compute_metrics on one track, with a frame rate     *)
(* that need not be a whole number (cv2 reports it as a float).            *)
(***************************************************************************)
MaxMetricPoints == 4
MetricXs == {0, 1, 2, 12}
MetricGaps == {<<0, 1>>, <<1, 7>>, <<1, 4>>, <<1, 1>>}
MetricFps == {Rat(1), <<3, 2>>, Rat(2), <<5, 2>>, Rat(4)}

MetricPoint(frame, ts, x, meters) ==
    [frame |-> frame, timestamp |-> ts,
     xm |-> IF meters THEN Rat(x) ELSE None,
     ym |-> IF meters THEN Rat(0) ELSE None,
     xm_smooth |-> None, ym_smooth |-> None,
     velocity |-> Rat(0), acceleration |-> Rat(0),
     is_sprinting |-> FALSE, team |-> "A"]

MetricTrack(xs, gap, meters) ==
    [pid |-> 1,
     points |-> Tup([i \in 1..Len(xs) |->
                       MetricPoint(i - 1, RMul(Rat(i - 1), gap), xs[i], meters)])]

ComputeTrackMetrics ==
    /\ mt_pc = "in"
    /\ mt_tracks' = compute_metrics(mt_tracks, mt_fps)
    /\ mt_pc' = "done"
    /\ UNCHANGED <<mt_in, mt_fps>>

MetricInit ==
    /\ \E n \in 1..MaxMetricPoints : \E xs \in [1..n -> MetricXs] :
       \E gap \in MetricGaps : \E meters \in BOOLEAN :
          mt_in = <<MetricTrack(xs, gap, meters)>>
    /\ mt_tracks = mt_in
    /\ mt_fps \in MetricFps
    /\ mt_pc = "in"

MetricIdle ==
    /\ mt_in = <<>>
    /\ mt_tracks = <<>>
    /\ mt_fps = Rat(1)
    /\ mt_pc = "idle"

(***************************************************************************)
(* SoccerMatchAnalyzer.parse_clips as a function of its arguments: clips   *)
(* in seconds (floats, or None for a field that is not a number), a frame  *)
(* rate and the frame count of a validated video.                          *)
(***************************************************************************)
MaxClips == 2
MaxTotalFrames == 3
ClipSeconds == {None, Rat(0 - 1), Rat(0), <<1, 2>>, Rat(1), Rat(4)}
ClipFps == {Rat(1), <<3, 2>>, Rat(2)}
ClipChoices ==
    [start : ClipSeconds, end : ClipSeconds] \cup [start : {Rat(0)}] \cup [end : {Rat(2)}]

ParseClipList ==
    /\ cl_pc = "in"
    /\ cl_ranges' = parse_clips(cl_data, cl_fps, cl_total)
    /\ cl_pc' = "done"
    /\ UNCHANGED <<cl_data, cl_fps, cl_total>>

ClipInit ==
    /\ \E n \in 0..MaxClips : cl_data \in [1..n -> ClipChoices]
    /\ cl_fps \in ClipFps
    /\ cl_total \in 1..MaxTotalFrames
    /\ cl_ranges = <<>>
    /\ cl_pc = "in"

ClipIdle ==
    /\ cl_data = <<>>
    /\ cl_fps = Rat(1)
    /\ cl_total = 1
    /\ cl_ranges = <<>>
    /\ cl_pc = "idle"

(***************************************************************************)
(* api_server: one analysis job, its background thread analyze_video_task  *)
(* and the status requests served meanwhile.  Every write to and read of   *)
(* the job dictionary is one step; the threads interleave between them.    *)
(***************************************************************************)
MaxApiFrames == 2
MaxRequests == 3

Results == <<"results">>
ErrorText == <<"error">>
NoResponse == [code |-> 0, status |-> "", progress |-> 0, results |-> None, error |-> None]

JobWith(field, value) == <<[api_job[1] EXCEPT ![field] = value]>>

\* analyze_video: the job dictionary is created and the thread started
SubmitJob ==
    /\ api_job = <<>>
    /\ api_job' = <<[status |-> "queued", progress |-> 0, results |-> None, error |-> None]>>
    /\ api_total' \in 0..MaxApiFrames
    /\ api_frames' \in 0..MaxApiFrames
    /\ api_tpc' = "start"
    /\ UNCHANGED <<api_idx, api_rpc, api_resp, api_out, api_reqs>>

\* analysis_jobs[job_id]['status'] = 'processing'
TaskSetProcessing ==
    /\ api_tpc = "start"
    /\ api_job' = JobWith("status", "processing")
    /\ api_tpc' = "setup"
    /\ UNCHANGED <<api_idx, api_total, api_frames, api_rpc, api_resp, api_out, api_reqs>>

\* analysis_jobs[job_id]['progress'] = 0, the capture and the components
TaskSetup ==
    /\ api_tpc = "setup"
    /\ api_job' = JobWith("progress", 0)
    /\ api_idx' = 0
    /\ api_tpc' = "loop"
    /\ UNCHANGED <<api_total, api_frames, api_rpc, api_resp, api_out, api_reqs>>

\* one iteration of "while cap.isOpened()": a failed read ends the loop;
\* else progress = int((frame_idx / total_frames) * 100), which raises
\* ZeroDivisionError when the capture reported no frames
TaskFrame ==
    /\ api_tpc = "loop"
    /\ IF api_idx >= api_frames
       THEN /\ api_tpc' = "save"
            /\ UNCHANGED <<api_job, api_idx>>
       ELSE IF api_total = 0
       THEN /\ api_job' = JobWith("status", "failed")
            /\ api_idx' = api_idx + 1
            /\ api_tpc' = "failed"
       ELSE /\ api_job' = JobWith("progress", ((api_idx + 1) * 100) \div api_total)
            /\ api_idx' = api_idx + 1
            /\ UNCHANGED api_tpc
    /\ UNCHANGED <<api_total, api_frames, api_rpc, api_resp, api_out, api_reqs>>

\* a component raises inside the try block (detector, tracker, analytics,
\* json.dump): except Exception: analysis_jobs[job_id]['status'] = 'failed'
TaskRaises ==
    /\ api_tpc \in {"setup", "loop", "save"}
    /\ api_job' = JobWith("status", "failed")
    /\ api_tpc' = "failed"
    /\ UNCHANGED <<api_idx, api_total, api_frames, api_rpc, api_resp, api_out, api_reqs>>

\* analysis_jobs[job_id]['error'] = str(e)
TaskSetError ==
    /\ api_tpc = "failed"
    /\ api_job' = JobWith("error", ErrorText)
    /\ api_tpc' = "done"
    /\ UNCHANGED <<api_idx, api_total, api_frames, api_rpc, api_resp, api_out, api_reqs>>

\* the metrics, the results file, then
\* analysis_jobs[job_id]['status'] = 'completed'
TaskSetCompleted ==
    /\ api_tpc = "save"
    /\ api_job' = JobWith("status", "completed")
    /\ api_tpc' = "completed"
    /\ UNCHANGED <<api_idx, api_total, api_frames, api_rpc, api_resp, api_out, api_reqs>>

\* analysis_jobs[job_id]['progress'] = 100
TaskSetProgress ==
    /\ api_tpc = "completed"
    /\ api_job' = JobWith("progress", 100)
    /\ api_tpc' = "results"
    /\ UNCHANGED <<api_idx, api_total, api_frames, api_rpc, api_resp, api_out, api_reqs>>

\* analysis_jobs[job_id]['results'] = results
TaskSetResults ==
    /\ api_tpc = "results"
    /\ api_job' = JobWith("results", Results)
    /\ api_tpc' = "done"
    /\ UNCHANGED <<api_idx, api_total, api_frames, api_rpc, api_resp, api_out, api_reqs>>

\* get_analysis_status: 404 for an unknown job, else 'status': job['status']
StatusReadStatus ==
    /\ api_rpc = "idle"
    /\ api_reqs < MaxRequests
    /\ api_reqs' = api_reqs + 1
    /\ IF api_job = <<>>
       THEN /\ api_out' = <<[NoResponse EXCEPT !.code = 404]>>
            /\ UNCHANGED <<api_rpc, api_resp>>
       ELSE /\ api_resp' = [NoResponse EXCEPT !.code = 200, !.status = api_job[1].status]
            /\ api_rpc' = "progress"
            /\ UNCHANGED api_out
    /\ UNCHANGED <<api_job, api_tpc, api_idx, api_total, api_frames>>

\* 'progress': job['progress']
StatusReadProgress ==
    /\ api_rpc = "progress"
    /\ api_resp' = [api_resp EXCEPT !.progress = api_job[1].progress]
    /\ api_rpc' = "branch"
    /\ UNCHANGED <<api_job, api_tpc, api_idx, api_total, api_frames, api_out, api_reqs>>

\* if job['status'] == 'completed': results; elif 'failed': error; return
StatusReturn ==
    /\ api_rpc = "branch"
    /\ api_out' = << IF api_job[1].status = "completed"
                     THEN [api_resp EXCEPT !.results = api_job[1].results]
                     ELSE IF api_job[1].status = "failed"
                     THEN [api_resp EXCEPT !.error = api_job[1].error]
                     ELSE api_resp >>
    /\ api_resp' = NoResponse
    /\ api_rpc' = "idle"
    /\ UNCHANGED <<api_job, api_tpc, api_idx, api_total, api_frames, api_reqs>>

ApiInit ==
    /\ api_job = <<>>
    /\ api_tpc = "none"
    /\ api_idx = 0
    /\ api_total = 0
    /\ api_frames = 0
    /\ api_rpc = "idle"
    /\ api_resp = NoResponse
    /\ api_out = <<>>
    /\ api_reqs = 0

ApiIdle ==
    /\ api_job = <<>>
    /\ api_tpc = "off"
    /\ api_idx = 0
    /\ api_total = 0
    /\ api_frames = 0
    /\ api_rpc = "off"
    /\ api_resp = NoResponse
    /\ api_out = <<>>
    /\ api_reqs = 0

(***************************************************************************)
(* Specifications: one per component, the other components at rest.        *)
(***************************************************************************)
Init == TrackerInit /\ DedupIdle /\ PassIdle /\ VelIdle /\ AnalyzeIdle /\ HomIdle /\ JobIdle /\ DbIdle /\ NetIdle /\ PressIdle /\ RoundIdle /\ FeatIdle /\ XtIdle /\ MetricIdle /\ ClipIdle /\ ApiIdle
Next == Update /\ UNCHANGED <<dedupVars, passVars, velVars, analyzeVars, homVars, jobVars, dbVars, netVars, pressVars, roundVars, featVars, xtVars, metricVars, clipVars, apiVars>>
Spec == Init /\ [][Next]_vars

DedupSpecInit == DedupInit /\ TrackerIdle /\ PassIdle /\ VelIdle /\ AnalyzeIdle /\ HomIdle /\ JobIdle /\ DbIdle /\ NetIdle /\ PressIdle /\ RoundIdle /\ FeatIdle /\ XtIdle /\ MetricIdle /\ ClipIdle /\ ApiIdle
DedupNext == Deduplicate /\ UNCHANGED <<trackerVars, passVars, velVars, analyzeVars, homVars, jobVars, dbVars, netVars, pressVars, roundVars, featVars, xtVars, metricVars, clipVars, apiVars>>
DedupSpec == DedupSpecInit /\ [][DedupNext]_vars

PassSpecInit == PassInit /\ TrackerIdle /\ DedupIdle /\ VelIdle /\ AnalyzeIdle /\ HomIdle /\ JobIdle /\ DbIdle /\ NetIdle /\ PressIdle /\ RoundIdle /\ FeatIdle /\ XtIdle /\ MetricIdle /\ ClipIdle /\ ApiIdle
PassNext ==
    \/ PassFrame /\ UNCHANGED <<trackerVars, dedupVars, velVars, analyzeVars, homVars, jobVars, dbVars, netVars, pressVars, roundVars, featVars, xtVars, metricVars, clipVars, apiVars>>
    \/ PassReturn /\ UNCHANGED <<trackerVars, dedupVars, velVars, analyzeVars, homVars, jobVars, dbVars, netVars, pressVars, roundVars, featVars, xtVars, metricVars, clipVars, apiVars>>
PassSpec == PassSpecInit /\ [][PassNext]_vars

VelSpecInit == VelInit /\ TrackerIdle /\ DedupIdle /\ PassIdle /\ AnalyzeIdle /\ HomIdle /\ JobIdle /\ DbIdle /\ NetIdle /\ PressIdle /\ RoundIdle /\ FeatIdle /\ XtIdle /\ MetricIdle /\ ClipIdle /\ ApiIdle
VelNext ==
    \/ ComputeVelocity /\ UNCHANGED <<trackerVars, dedupVars, passVars, analyzeVars, homVars, jobVars, dbVars, netVars, pressVars, roundVars, featVars, xtVars, metricVars, clipVars, apiVars>>
    \/ ComputeAcceleration /\ UNCHANGED <<trackerVars, dedupVars, passVars, analyzeVars, homVars, jobVars, dbVars, netVars, pressVars, roundVars, featVars, xtVars, metricVars, clipVars, apiVars>>
VelSpec == VelSpecInit /\ [][VelNext]_vars

AnalyzeSpecInit == AnalyzeInit /\ TrackerIdle /\ DedupIdle /\ PassIdle /\ VelIdle /\ HomIdle /\ JobIdle /\ DbIdle /\ NetIdle /\ PressIdle /\ RoundIdle /\ FeatIdle /\ XtIdle /\ MetricIdle /\ ClipIdle /\ ApiIdle
AnalyzeRest == UNCHANGED <<trackerVars, dedupVars, passVars, velVars, homVars, jobVars, dbVars, netVars, pressVars, roundVars, featVars, xtVars, metricVars, clipVars, apiVars>>
AnalyzeNext ==
    \/ LoadModels /\ AnalyzeRest
    \/ SetupHomography /\ AnalyzeRest
    \/ ValidateVideo /\ AnalyzeRest
    \/ ParseClips /\ AnalyzeRest
    \/ TrackPlayers /\ AnalyzeRest
    \/ ComputeMetrics /\ AnalyzeRest
    \/ ComputeStats /\ AnalyzeRest
    \/ DetectPressing /\ AnalyzeRest
    \/ DetectPassesFrame /\ AnalyzeRest
    \/ DetectPassesEnd /\ AnalyzeRest
    \/ AdvancedAnalysis /\ AnalyzeRest
    \/ GenerateVideo /\ AnalyzeRest
    \/ BuildResult /\ AnalyzeRest
AnalyzeSpec == AnalyzeSpecInit /\ [][AnalyzeNext]_vars

HomSpecInit == HomInit /\ TrackerIdle /\ DedupIdle /\ PassIdle /\ VelIdle /\ AnalyzeIdle /\ JobIdle /\ DbIdle /\ NetIdle /\ PressIdle /\ RoundIdle /\ FeatIdle /\ XtIdle /\ MetricIdle /\ ClipIdle /\ ApiIdle
HomRest == UNCHANGED <<trackerVars, dedupVars, passVars, velVars, analyzeVars, jobVars, dbVars, netVars, pressVars, roundVars, featVars, xtVars, metricVars, clipVars, apiVars>>
HomNext ==
    \/ FromString /\ HomRest
    \/ Transform /\ HomRest
HomSpec == HomSpecInit /\ [][HomNext]_vars

JobSpecInit == JobInit /\ TrackerIdle /\ DedupIdle /\ PassIdle /\ VelIdle /\ AnalyzeIdle /\ HomIdle /\ DbIdle /\ NetIdle /\ PressIdle /\ RoundIdle /\ FeatIdle /\ XtIdle /\ MetricIdle /\ ClipIdle /\ ApiIdle
JobRest == UNCHANGED <<trackerVars, dedupVars, passVars, velVars, analyzeVars, homVars, dbVars, netVars, pressVars, roundVars, featVars, xtVars, metricVars, clipVars, apiVars>>
JobNext ==
    \/ StartJob /\ JobRest
    \/ SetupCalibration /\ JobRest
    \/ ValidateAndParse /\ JobRest
    \/ NextRange /\ JobRest
    \/ FrameIteration /\ JobRest
    \/ FrameIterationRaises /\ JobRest
    \/ RequestStop /\ JobRest
    \/ DetectPlayers /\ JobRest
JobSpec == JobSpecInit /\ [][JobNext]_vars

DbSpecInit == DbInit /\ TrackerIdle /\ DedupIdle /\ PassIdle /\ VelIdle /\ AnalyzeIdle /\ HomIdle /\ JobIdle /\ NetIdle /\ PressIdle /\ RoundIdle /\ FeatIdle /\ XtIdle /\ MetricIdle /\ ClipIdle /\ ApiIdle
DbRest == UNCHANGED <<trackerVars, dedupVars, passVars, velVars, analyzeVars, homVars, jobVars, netVars, pressVars, roundVars, featVars, xtVars, metricVars, clipVars, apiVars>>
DbNext ==
    \/ EnsureUser /\ DbRest
    \/ UpdateTrust /\ DbRest
    \/ EnterBlock /\ DbRest
    \/ LeaveBlock /\ DbRest
    \/ UseConnection /\ DbRest
DbSpec == DbSpecInit /\ [][DbNext]_vars

NetSpecInit == NetInit /\ TrackerIdle /\ DedupIdle /\ PassIdle /\ VelIdle /\ AnalyzeIdle /\ HomIdle /\ JobIdle /\ DbIdle /\ PressIdle /\ RoundIdle /\ FeatIdle /\ XtIdle /\ MetricIdle /\ ClipIdle /\ ApiIdle
NetRest == UNCHANGED <<trackerVars, dedupVars, passVars, velVars, analyzeVars, homVars, jobVars, dbVars, pressVars, roundVars, featVars, xtVars, metricVars, clipVars, apiVars>>
NetNext ==
    \/ AnalyzeNetwork /\ NetRest
NetSpec == NetSpecInit /\ [][NetNext]_vars

PressSpecInit == PressInit /\ TrackerIdle /\ DedupIdle /\ PassIdle /\ VelIdle /\ AnalyzeIdle /\ HomIdle /\ JobIdle /\ DbIdle /\ NetIdle /\ RoundIdle /\ FeatIdle /\ XtIdle /\ MetricIdle /\ ClipIdle /\ ApiIdle
PressRest == UNCHANGED <<trackerVars, dedupVars, passVars, velVars, analyzeVars, homVars, jobVars, dbVars, netVars, roundVars, featVars, xtVars, metricVars, clipVars, apiVars>>
PressNext ==
    \/ DetectPressingEvents /\ PressRest
PressSpec == PressSpecInit /\ [][PressNext]_vars

RoundSpecInit == RoundInit /\ TrackerIdle /\ DedupIdle /\ PassIdle /\ VelIdle /\ AnalyzeIdle /\ HomIdle /\ JobIdle /\ DbIdle /\ NetIdle /\ PressIdle /\ FeatIdle /\ XtIdle /\ MetricIdle /\ ClipIdle /\ ApiIdle
RoundRest == UNCHANGED <<trackerVars, dedupVars, passVars, velVars, analyzeVars, homVars, jobVars, dbVars, netVars, pressVars, featVars, xtVars, metricVars, clipVars, apiVars>>
RoundNext ==
    \/ Forward /\ RoundRest
    \/ Backward /\ RoundRest
RoundSpec == RoundSpecInit /\ [][RoundNext]_vars

FeatSpecInit == FeatInit /\ TrackerIdle /\ DedupIdle /\ PassIdle /\ VelIdle /\ AnalyzeIdle /\ HomIdle /\ JobIdle /\ DbIdle /\ NetIdle /\ PressIdle /\ RoundIdle /\ XtIdle /\ MetricIdle /\ ClipIdle /\ ApiIdle
FeatRest == UNCHANGED <<trackerVars, dedupVars, passVars, velVars, analyzeVars, homVars, jobVars, dbVars, netVars, pressVars, roundVars, xtVars, metricVars, clipVars, apiVars>>
FeatNext ==
    \/ UpdateWithFeature /\ FeatRest
FeatSpec == FeatSpecInit /\ [][FeatNext]_vars

XtSpecInit == XtInit /\ TrackerIdle /\ DedupIdle /\ PassIdle /\ VelIdle /\ AnalyzeIdle /\ HomIdle /\ JobIdle /\ DbIdle /\ NetIdle /\ PressIdle /\ RoundIdle /\ FeatIdle /\ MetricIdle /\ ClipIdle /\ ApiIdle
XtRest == UNCHANGED <<trackerVars, dedupVars, passVars, velVars, analyzeVars, homVars, jobVars, dbVars, netVars, pressVars, roundVars, featVars, metricVars, clipVars, apiVars>>
XtNext ==
    \/ GetValue /\ XtRest
XtSpec == XtSpecInit /\ [][XtNext]_vars

MetricSpecInit == MetricInit /\ TrackerIdle /\ DedupIdle /\ PassIdle /\ VelIdle /\ AnalyzeIdle /\ HomIdle /\ JobIdle /\ DbIdle /\ NetIdle /\ PressIdle /\ RoundIdle /\ FeatIdle /\ XtIdle /\ ClipIdle /\ ApiIdle
MetricRest == UNCHANGED <<trackerVars, dedupVars, passVars, velVars, analyzeVars, homVars, jobVars, dbVars, netVars, pressVars, roundVars, featVars, xtVars, clipVars, apiVars>>
MetricNext ==
    \/ ComputeTrackMetrics /\ MetricRest
MetricSpec == MetricSpecInit /\ [][MetricNext]_vars

ClipSpecInit == ClipInit /\ TrackerIdle /\ DedupIdle /\ PassIdle /\ VelIdle /\ AnalyzeIdle /\ HomIdle /\ JobIdle /\ DbIdle /\ NetIdle /\ PressIdle /\ RoundIdle /\ FeatIdle /\ XtIdle /\ MetricIdle /\ ApiIdle
ClipRest == UNCHANGED <<trackerVars, dedupVars, passVars, velVars, analyzeVars, homVars, jobVars, dbVars, netVars, pressVars, roundVars, featVars, xtVars, metricVars, apiVars>>
ClipNext ==
    \/ ParseClipList /\ ClipRest
ClipSpec == ClipSpecInit /\ [][ClipNext]_vars

ApiSpecInit == ApiInit /\ TrackerIdle /\ DedupIdle /\ PassIdle /\ VelIdle /\ AnalyzeIdle /\ HomIdle /\ JobIdle /\ DbIdle /\ NetIdle /\ PressIdle /\ RoundIdle /\ FeatIdle /\ XtIdle /\ MetricIdle /\ ClipIdle
ApiRest == UNCHANGED <<trackerVars, dedupVars, passVars, velVars, analyzeVars, homVars, jobVars, dbVars, netVars, pressVars, roundVars, featVars, xtVars, metricVars, clipVars>>
ApiNext ==
    \/ SubmitJob /\ ApiRest
    \/ TaskSetProcessing /\ ApiRest
    \/ TaskSetup /\ ApiRest
    \/ TaskFrame /\ ApiRest
    \/ TaskRaises /\ ApiRest
    \/ TaskSetError /\ ApiRest
    \/ TaskSetCompleted /\ ApiRest
    \/ TaskSetProgress /\ ApiRest
    \/ TaskSetResults /\ ApiRest
    \/ StatusReadStatus /\ ApiRest
    \/ StatusReadProgress /\ ApiRest
    \/ StatusReturn /\ ApiRest
ApiSpec == ApiSpecInit /\ [][ApiNext]_vars

(***************************************************************************)
(* Properties of HybridTracker, checked under Spec.                        *)
(***************************************************************************)

\* C1 (track continuity): while every update call has supplied exactly one
\* detection of score >= conf_thresh and, from the second call on, that
\* detection was within an association threshold of the existing track
\* (appearance distance < reid_thresh, or IoU with its predicted box >
\* iou_thresh), the tracker holds exactly one track, has allocated only the
\* id 1, and every emitted row carries that id.
C1_TrackContinuity ==
    (smooth /\ calls >= 1) =>
        /\ Len(tracks) = 1
        /\ tracks[1].track_id = 1
        /\ next_id = 2
        /\ RowIds(ret) \subseteq {1}

\* three continuous calls, the third one emitting the track
C1_Witness == smooth /\ calls >= 3 /\ Len(ret) = 1 /\ ret[1].track_id = 1

\* C2 (output gating): every returned row belongs to a track matched in this
\* call (time_since_update = 0, not created in the call) with at least 3
\* hits; every such track is returned; a track created in this call or with
\* fewer than 3 hits is not returned.
C2_OutputGating ==
    /\ \A i \in 1..Len(ret) : \E j \in 1..Len(tracks) :
          /\ tracks[j].track_id = ret[i].track_id
          /\ tracks[j].time_since_update = 0
          /\ tracks[j].hits >= 3
          /\ \E m \in last.matched : m[1] = tracks[j].track_id
          /\ tracks[j].track_id \notin last.created
    /\ \A j \in 1..Len(tracks) :
          (tracks[j].time_since_update = 0 /\ tracks[j].hits >= 3)
              => tracks[j].track_id \in RowIds(ret)
    /\ \A j \in 1..Len(tracks) :
          (tracks[j].track_id \in last.created \/ tracks[j].hits < 3)
              => tracks[j].track_id \notin RowIds(ret)
    /\ \A i, k \in 1..Len(ret) : ret[i].track_id = ret[k].track_id => i = k

\* a call that returns a confirmed track and also creates a track it holds back
C2_Witness ==
    /\ Len(ret) = 1
    /\ \E j \in 1..Len(tracks) :
          tracks[j].track_id \in last.created /\ tracks[j].track_id \notin RowIds(ret)

\* C3 (track split under occlusion): no live track has gone unmatched for
\* more than max_age calls; the id of a dropped track is carried by no live
\* track and by no returned row ever after; and every track created by a call
\* gets an id that is at least the next_id before the call, hence one no
\* track has carried before.
C3_NewIdAfterOcclusion ==
    [][ /\ \A j \in 1..Len(tracks') :
              tracks'[j].time_since_update <= max_age(frame_rate')
        /\ \A r \in retired' :
              r \notin TrackIds(tracks') /\ r \notin RowIds(ret')
        /\ \A c \in last'.created :
              c >= next_id /\ c \notin retired' /\ c \notin TrackIds(tracks)
      ]_vars

\* a track was dropped by an earlier call and a detection of this call got a
\* new track with a larger id
C3_Witness ==
    /\ retired # {}
    /\ last.dropped = {}
    /\ \E c \in last.created : c \in TrackIds(tracks) /\ \A r \in retired : c > r

\* C4 (IoU fallback): a call with two tracks and two detections in which no
\* appearance distance is below reid_thresh, each detection overlaps one
\* predicted box with IoU > iou_thresh and has IoU 0 with the other, and each
\* track has such a detection, matches each track to its overlapping
\* detection, creates no track and leaves both tracks with
\* time_since_update = 0.
C4_IouFallback ==
    last.fallback # {} =>
        /\ last.fallback \subseteq last.matched
        /\ last.created = {}
        /\ Len(tracks) = 2
        /\ \A j \in 1..Len(tracks) : tracks[j].time_since_update = 0

\* an IoU-fallback call has happened, both tracks paired
C4_Witness == Cardinality(last.fallback) = 2 /\ last.fallback = last.matched

TracksById(ts, id) == {i \in 1..Len(ts) : ts[i].track_id = id}
TrackOf(ts, id) == ts[CHOOSE i \in 1..Len(ts) : ts[i].track_id = id]

\* C22 (one-to-one matching): in every update call no track is matched to
\* two detections and no detection to two tracks; the pairs accepted in the
\* appearance stage and those accepted in the geometry stage share no track
\* and no detection, and together they are the matches; and the call creates
\* exactly one track for every detection that no pair matched.
C22_OneToOne ==
    /\ \A p \in last.matched : \A q \in last.matched :
           p # q => (p[1] # q[1] /\ p[2] # q[2])
    /\ last.matched = last.stage1 \cup last.stage2
    /\ \A p \in last.stage1 : \A q \in last.stage2 : p[1] # q[1] /\ p[2] # q[2]
    /\ \A p \in last.matched : p[2] \in 1..last.ndets
    /\ Cardinality(last.created) = last.ndets - Cardinality(last.matched)

\* a call matched one track in the appearance stage and another in the
\* geometry stage
C22_Witness == last.stage1 # {} /\ last.stage2 # {}

\* C23 (sequential ids): the ids given out so far are exactly 1 .. next_id - 1
\* (each is carried by a live track or was carried by a removed one), no two
\* live tracks carry the same id, a call gives its new tracks the ids from
\* the old next_id up to the new next_id - 1, next_id never decreases, and a
\* track enters with hits 1 and time_since_update 0.
C23_SequentialIds ==
    [][ /\ next_id' >= next_id
        /\ last'.created = next_id..(next_id' - 1)
        /\ TrackIds(tracks') \cup retired' = 1..(next_id' - 1)
        /\ \A id \in TrackIds(tracks') : Cardinality(TracksById(tracks', id)) = 1
        /\ \A id \in last'.created :
               /\ id \in TrackIds(tracks')
               /\ TrackOf(tracks', id).hits = 1
               /\ TrackOf(tracks', id).time_since_update = 0
      ]_vars

\* a track is created after an earlier track was removed and takes the next
\* id of the counter, not the free one
C23_Witness ==
    /\ retired # {}
    /\ \E c \in last.created : c = next_id - 1 /\ \E r \in retired : r < c

\* C29 (lost after one missed update): after every update call a track that
\* existed before the call and was not matched in it is in state 'lost';
\* a track in state 'active' was matched or created by the call.
C29_LostAfterMiss ==
    calls > 0 =>
        \A j \in 1..Len(tracks) :
            LET id == tracks[j].track_id
                hit == id \in last.created \/ \E p \in last.matched : p[1] = id
            IN  /\ ~hit => tracks[j].state = "lost"
                /\ tracks[j].state = "active" => hit

\* C30 (per-call counters): an update call raises the age of every track it
\* found by exactly 1; a matched one ends with time_since_update 0 and one
\* more hit; an unmatched one ends with time_since_update one higher and its
\* hits, score and embedding buffer as before.
C30_CounterEffect ==
    [][ \A id \in TrackIds(tracks) \cap TrackIds(tracks') :
            LET old == TrackOf(tracks, id)
                new == TrackOf(tracks', id)
            IN  /\ new.age = old.age + 1
                /\ IF \E p \in last'.matched : p[1] = id
                   THEN /\ new.time_since_update = 0
                        /\ new.hits = old.hits + 1
                   ELSE /\ new.time_since_update = old.time_since_update + 1
                        /\ new.hits = old.hits
                        /\ new.score = old.score
                        /\ new.nfeat = old.nfeat
      ]_vars

\* a call matched one track it found and left another one unmatched
C30_Witness ==
    /\ \E p \in last.matched : p[1] \in TrackIds(tracks) /\ p[1] \notin last.created
    /\ \E j \in 1..Len(tracks) : tracks[j].time_since_update > 0

\* C15 (track removal boundary): every update call retains exactly the
\* tracks whose time_since_update does not exceed max_age: no retained track
\* is older than max_age, and a track that the call leaves with a
\* time_since_update of at most max_age (it is matched, or it goes unmatched
\* from a time_since_update below max_age) is still present after the call.
C15_RemovalBoundary ==
    [][ /\ \A j \in 1..Len(tracks') :
              tracks'[j].time_since_update <= max_age(frame_rate')
        /\ \A j \in 1..Len(tracks) :
              Predict(tracks[j]).time_since_update <= max_age(frame_rate)
                  => tracks[j].track_id \in TrackIds(tracks')
      ]_vars

(***************************************************************************)
(* Properties of _deduplicate_events, checked under DedupSpec.             *)
(***************************************************************************)
SamePair(e, f) == e.defender_id = f.defender_id /\ e.attacker_id = f.attacker_id

\* C5 (pressing dedup): the output of _deduplicate_events never contains two
\* events of the same (defender, attacker) pair whose timestamps differ by
\* less than 1 second, and two input events of one pair
\* 1.5 seconds apart both remain.
C5_PressingDedup ==
    dpc = "done" =>
        /\ \A i, j \in 1..Len(unique) :
              (i < j /\ SamePair(unique[i], unique[j]))
                  => RLe(Rat(time_window),
                         RAbs(RSub(unique[j].timestamp, unique[i].timestamp)))
        /\ (Len(events) = 2 /\ SamePair(events[1], events[2])
                /\ RSub(events[2].timestamp, events[1].timestamp) = <<3, 2>>)
              => Len(unique) = 2

(***************************************************************************)
(* Properties of PassDetector, checked under PassSpec.                     *)
(***************************************************************************)
\* C6 (pass validation boundary): whenever a candidate completes (the pair
\* separates beyond pass_proximity_threshold_m) with a duration in
\* (0, pass_max_duration_s] and a receiver velocity not below the validation
\* minimum, a PassEvent is emitted if the receiver's displacement from the
\* start position equals pass_min_distance_m, and none is emitted if the
\* displacement is below pass_min_distance_m.
MinDistance2 == Rat(pass_min_distance_m * pass_min_distance_m)

EmittedNow(c) ==
    \E k \in 1..Len(passes) :
        /\ passes[k].timestamp = Rat(now)
        /\ passes[k].distance2 = c.disp2
        /\ passes[k].passer_id = potential_passes[c.idx].passer
        /\ passes[k].receiver_id = potential_passes[c.idx].receiver

C6_PassBoundary ==
    \A c \in plog :
        (/\ c.how = "completed"
         /\ RLt(Rat(0), c.duration) /\ RLe(c.duration, Rat(pass_max_duration_s))
         /\ RLe(min_receiver_velocity, c.velocity))
        => /\ c.disp2 = MinDistance2 => (c.emitted /\ EmittedNow(c))
           /\ RLt(c.disp2, MinDistance2) => (~c.emitted /\ ~EmittedNow(c))

C6_Witness ==
    /\ \E c \in plog : c.how = "completed" /\ c.disp2 = MinDistance2 /\ c.emitted
    /\ \E k \in 1..Len(passes) :
          passes[k].timestamp = Rat(now) /\ passes[k].distance2 = MinDistance2

\* C24 (pass-candidate state machine): in every frame each candidate that
\* is active (or starts in that frame) leaves the active state exactly when
\* a player of the pair is absent (broken), else the pair's distance exceeds
\* pass_proximity_threshold_m (completed), else the time since its start
\* exceeds pass_max_duration_s (timed-out), and stays active otherwise; an
\* inactive candidate stays inactive and is not looked at again; a frame
\* adds one PassEvent per candidate that completed and was validated, and
\* none for any other candidate.
Proximity2 == Rat(pass_proximity_threshold_m * pass_proximity_threshold_m)

ExpectedOutcome(c) ==
    IF ~c.present THEN "broken"
    ELSE IF RLt(Proximity2, c.sep2) THEN "completed"
    ELSE IF RLt(Rat(pass_max_duration_s), c.duration) THEN "timed-out"
    ELSE "kept"

C24_CandidateLifecycle ==
    [][(ppc = "loop" /\ ppc' = "loop") =>
        /\ Len(potential_passes') >= Len(potential_passes)
        /\ \A k \in 1..Len(potential_passes') :
              LET seen == {c \in pseen' : c.idx = k}
                  left == {l \in plog' : l.idx = k}
              IN  IF k <= Len(potential_passes) /\ ~potential_passes[k].active
                  THEN ~potential_passes'[k].active /\ seen = {} /\ left = {}
                  ELSE /\ Cardinality(seen) = 1
                       /\ \A c \in seen :
                             /\ potential_passes'[k].active <=> ExpectedOutcome(c) = "kept"
                             /\ left = {l \in left : l.how = ExpectedOutcome(c)}
                             /\ Cardinality(left) = IF ExpectedOutcome(c) = "kept" THEN 0 ELSE 1
        /\ \A l \in plog' : l.emitted => l.how = "completed"
        /\ Len(passes') - Len(passes) = Cardinality({l \in plog' : l.emitted})
        /\ SubSeq(passes', 1, Len(passes)) = passes
    ]_vars

C24_Witness ==
    /\ \E c \in pseen : c.present /\ c.sep2 = Proximity2 /\ ExpectedOutcome(c) = "timed-out"
    /\ \E l \in plog : l.how = "timed-out" /\ ~potential_passes[l.idx].active

OrderIndex(pid) == CHOOSE i \in 1..Len(order) : order[i] = pid

PassEdges == {<<passes[k].passer_id, passes[k].receiver_id>> : k \in 1..Len(passes)}

RECURSIVE ReachableIn(_, _)
ReachableIn(from, n) ==
    IF n = 0 THEN from
    ELSE LET near == ReachableIn(from, n - 1)
         IN  near \cup {e[2] : e \in {d \in PassEdges : d[1] \in near}}

OnCycle(pid) ==
    pid \in ReachableIn({e[2] : e \in {d \in PassEdges : d[1] = pid}},
                       Cardinality(Pids))

C26_PassDirection ==
    /\ \A e \in PassEdges : OrderIndex(e[1]) < OrderIndex(e[2])
    /\ \A e \in PassEdges : <<e[2], e[1]>> \notin PassEdges
    /\ \A pid \in Pids : ~OnCycle(pid)

C26_Witness ==
    /\ order = <<2, 1>>
    /\ passes # <<>>
    /\ \A e \in PassEdges : e = <<2, 1>>

(***************************************************************************)
(* Properties of _compute_velocity, checked under VelSpec.                 *)
(***************************************************************************)
\* C7 (velocity jump rejection): the velocity of a step is 0 exactly when
\* the distance between the two points exceeds max_distance_jump_m or their
\* time gap (after the zero-dt fallback) exceeds max_frame_gap_seconds;
\* every other step gets distance/dt capped at max_speed_ms.
C7_JumpRejection ==
    vpc = "vel" =>
        \A i \in 1..(Len(vcoords) - 1) :
            LET dt == StepDt(vtimes, i, <<1, vfps>>)
                dist == StepDist(vcoords, i)
            IN  velocity[i + 1] =
                    IF RLt(Rat(max_distance_jump_m), dist) \/ RLt(max_frame_gap_seconds, dt)
                    THEN Rat(0)
                    ELSE RMin(RDiv(dist, dt), max_speed_ms)

(***************************************************************************)
(* Properties of analyze and of its metrics and event stages, checked      *)
(* under AnalyzeSpec.                                                      *)
(***************************************************************************)
\* the scenario of C8: one player, 10 points one second apart (fps 1),
\* advancing 1 m per point from (0,0) to (9,0)
C8Scenario == <<Mover(10, 1, 1, 1, TRUE)>>

C8Done ==
    /\ a_out = "returned"
    /\ a_result.success
    /\ a_fps = 1
    /\ a_raw = C8Scenario

\* C8 as stated (end-to-end scenario): the run reports exactly 1 track whose
\* max_speed is within 0.1 of 1.0 m/s, 0 sprints, 0 passes and 0 pressing
\* events.
C8_EndToEnd_AsStated ==
    C8Done =>
        /\ Len(a_result.tracks) = 1
        /\ Len(a_result.stats) = 1
        /\ RLe(<<9, 10>>, a_result.stats[1].max_speed)
        /\ RLe(a_result.stats[1].max_speed, <<11, 10>>)
        /\ a_result.stats[1].sprints = 0
        /\ a_result.passes = <<>>
        /\ a_result.events = <<>>

\* C8 (end-to-end scenario, amended): the run reports exactly 1 track whose
\* max_speed is 0 (every step has a time gap of 1.0 s, which is not below
\* max_frame_gap_seconds, so every step velocity is forced to 0), 0 sprints,
\* 0 passes and 0 pressing events.
C8_EndToEnd ==
    C8Done =>
        /\ Len(a_result.tracks) = 1
        /\ Len(a_result.tracks[1].points) = 10
        /\ Len(a_result.stats) = 1
        /\ a_result.stats[1].max_speed = Rat(0)
        /\ a_result.stats[1].sprints = 0
        /\ a_result.passes = <<>>
        /\ a_result.events = <<>>

C8_Witness ==
    /\ C8Done
    /\ a_result.stats[1].total_distance = Rat(9)
    /\ a_result.tracks[1].points[10].xm_smooth = Rat(9)

\* C9 (no fault escapes analyze): no exception leaves analyze; whenever it
\* has ended it has returned a result with a boolean 'success', and a result
\* with success False carries 'error_type' and 'error'.
C9_NoFaultEscapes ==
    /\ a_out # "raised"
    /\ apc = "end" =>
          /\ a_out = "returned"
          /\ "success" \in DOMAIN a_result
          /\ a_result.success \in BOOLEAN
          /\ ~a_result.success => {"error", "error_type"} \subseteq DOMAIN a_result

C9_Witness ==
    /\ a_out = "returned"
    /\ ~a_result.success
    /\ a_result.error_type = "RuntimeError"
    /\ a_tracks # <<>>

\* C10 (no tracks is a failure): when track_players produces no tracks the
\* result is a failure, and analyze never returns success True with an empty
\* set of tracks.
C10_NoTracksIsFailure ==
    (a_out = "returned" /\ a_result.success) => a_result.tracks # <<>>

(***************************************************************************)
(* Properties of HomographyTransform, checked under HomSpec.               *)
(***************************************************************************)
IsNumeric(text) == float(strip(text)).ok
NotAllZeros(fields) == \E i \in 1..Len(fields) : ~FIsZero(float(strip(fields[i])).value)

\* C17 (from_string validation): from_string returns a transform (it never
\* raises), and the transform is enabled exactly when the string holds
\* exactly 9 comma-separated fields, every field is numeric, and the values
\* are not all zero; otherwise it is disabled.
C17_FromStringValidates ==
    hm_pc = "built" =>
        (hm_obj.enabled <=>
            /\ Len(hm_str) = 9
            /\ \A i \in 1..Len(hm_str) : IsNumeric(hm_str[i])
            /\ NotAllZeros(hm_str))

\* C18 (transform fallbacks): transform returns (x, y) unchanged when the
\* transform is disabled and when the third component w of matrix . (x, y, 1)
\* has |w| < 1e-10; whatever it returns, no coordinate is a quotient by a w
\* with |w| < 1e-10.
C18_TransformGuard ==
    (hm_pc = "built" /\ hm_out # <<>>) =>
        LET x == hm_point[1]
            y == hm_point[2]
        IN  /\ ~hm_obj.enabled => hm_out = Unchanged(x, y)
            /\ (hm_obj.enabled /\ FAbsBelow(DotRow(hm_obj.matrix, 3, x, y), near_zero_w))
                   => hm_out = Unchanged(x, y)
            /\ \A c \in 1..2 : ~FAbsBelow(hm_out[c][2], near_zero_w)

\* an enabled transform met a w that is not 0 but below 1e-10 and returned
\* the point unchanged
C18_Witness ==
    /\ hm_pc = "built" /\ hm_out # <<>> /\ hm_obj.enabled
    /\ ~FIsZero(DotRow(hm_obj.matrix, 3, hm_point[1], hm_point[2]))
    /\ FAbsBelow(DotRow(hm_obj.matrix, 3, hm_point[1], hm_point[2]), near_zero_w)
    /\ hm_out = Unchanged(hm_point[1], hm_point[2])

(***************************************************************************)
(* Properties of the analyze jobs of one analyzer, checked under JobSpec.  *)
(***************************************************************************)
Malformed(clip) ==
    \/ ~({"start", "end"} \subseteq DOMAIN clip)
    \/ RLe(clip.end, clip.start)
BadMatrix == j_matrix # <<>> /\ ~from_string(j_matrix[1]).enabled
BadClips == \E i \in 1..Len(j_clips) : Malformed(j_clips[i])

\* C11 (input errors stop the job): an analyze call whose calibration string
\* fails validation, or whose clip list holds a malformed range, does not
\* get past the setup stages: it ends as a failure, no frame is handed to
\* the tracker and track_players does not return tracks to the later stages.
C11_InputErrorsStopJob ==
    (j_jobs > 0 /\ (BadMatrix \/ BadClips)) =>
        /\ j_pc \in {"calibrate", "validate", "failed"}
        /\ j_processed = <<>>

\* C12 (frames in order): in every track the frame indices of successive
\* points increase strictly, and the frames handed to the tracker increase
\* strictly: no frame twice, none after a later one.
C12_FramesInOrder ==
    /\ \A a \in 1..Len(j_tracks), b \in 1..Len(j_tracks) :
           (a < b /\ j_tracks[a][1] = j_tracks[b][1]) => j_tracks[a][2] < j_tracks[b][2]
    /\ \A a \in 1..Len(j_processed), b \in 1..Len(j_processed) :
           a < b => j_processed[a] < j_processed[b]

\* the frame belongs to the i-th range, on its frame_skip grid
OnGrid(i, f) ==
    /\ j_ranges[i][1] <= f /\ f < j_ranges[i][2]
    /\ (f - j_ranges[i][1]) % j_frame_skip = 0
Handed(f) == \E a \in 1..Len(j_processed) : j_processed[a] = f

\* C13 (failed read is skipped): when track_players has returned, every
\* readable frame that lies in a processing range after an unreadable frame
\* of that range, on the range's frame_skip grid, has been handed to the
\* tracker.
C13_FailedReadSkipped ==
    j_pc = "returned" =>
        \A i \in 1..Len(j_ranges) : \A f \in 0..(MaxVideoFrames - 1) :
            ( /\ OnGrid(i, f)
              /\ f \notin j_unreadable
              /\ \E g \in j_unreadable : j_ranges[i][1] <= g /\ g < f )
            => Handed(f)

\* C14 (cooperative cancellation): once a stop has been requested for the
\* running job, no further frame is handed to the tracker.
C14_StopHonoured ==
    [][ (j_stop /\ j_pc \in {"range", "loop"}) => j_processed' = j_processed ]_vars

PlayerIds == {j_tracks[a][1][2] : a \in {b \in 1..Len(j_tracks) : j_tracks[b][1][1] = "id"}}

\* C16 (job isolation): an analyze call starts on an analyzer that holds no
\* tracker state and no calibration of an earlier call; the ids of its
\* tracks are those a tracker of its own issues (1, 2, ... without a gap);
\* and a detect-players request is projected with the calibration of its own
\* input, with none when it carries none.
C16_JobIsolation ==
    /\ j_pc = "calibrate" => (j_tracker = FreshTracker /\ j_homography = <<>>)
    /\ j_pc = "returned" => PlayerIds = 1..Cardinality(PlayerIds)
    /\ j_req # <<>> =>
           j_req[1].used = (IF j_req[1].homography = <<>> THEN <<>>
                            ELSE <<from_string(j_req[1].homography[1])>>)

(***************************************************************************)
(* Properties of get_db and ensure_user_exists, checked under DbSpec.      *)
(***************************************************************************)

\* C19 (get_db closes the connection): once the with-block is left, by a
\* normal exit or by an exception, the connection it yielded is closed, and
\* an operation tried on it afterwards fails; inside the block it is open.
C19_ConnectionClosed ==
    /\ db_where = "inside" => db_conn = "open"
    /\ (db_where = "outside" /\ db_exit # "none") => db_conn = "closed"
    /\ db_after # "none" => db_after = "ProgrammingError"

\* a block was left by an exception and the connection was tried afterwards
C19_Witness ==
    db_where = "outside" /\ db_exit = "exception" /\ db_after = "ProgrammingError"

\* C20 (ensure_user_exists): after a call for an absent user the table holds
\* exactly one row for the user, with the given username, trust_score 50 and
\* xp 0, and every other row as before; after a call for a user that exists
\* the table is as before, that user's one row included.
C20_EnsureUserIdempotent ==
    db_last.op = "ensure" =>
        LET was == RowsOf(db_last.before, db_last.user_id)
            is == RowsOf(db_users, db_last.user_id)
        IN  /\ Cardinality(is) = 1
            /\ db_users \ is = db_last.before \ was
            /\ IF was = {}
               THEN \A r \in is : /\ r.username = db_last.username
                                  /\ r.trust_score = 50
                                  /\ r.xp = 0
               ELSE db_users = db_last.before

\* the call met a user whose row no longer has the values of a fresh row and
\* a different username
C20_Witness ==
    /\ db_last.op = "ensure"
    /\ \E r \in RowsOf(db_last.before, db_last.user_id) :
           r.trust_score # 50 /\ r.username # db_last.username

(***************************************************************************)
(* Properties of PassingNetworkAnalyzer, checked under NetSpec.            *)
(***************************************************************************)
\* C28 (triangle detection): once analyze_network has run, a set of three
\* players is reported (once, as some triple of nw_triangles) exactly when
\* its players form a directed 3-cycle of passes in one of the two
\* orientations, and is not reported otherwise (fewer than max_triangles
\* cycles exist among NetworkPlayers, so the cap does not cut any).
PassFromTo(p, q) == \E k \in 1..Len(nw_passes) : nw_passes[k] = <<p, q>>

DirectedCycle(a, b, c) == PassFromTo(a, b) /\ PassFromTo(b, c) /\ PassFromTo(c, a)

Reports(S) ==
    {k \in 1..Len(nw_triangles) :
        {nw_triangles[k][1], nw_triangles[k][2], nw_triangles[k][3]} = S}

SmoothedPoints(pid, frame) ==
    UNION {{t.points[i] : i \in {j \in 1..Len(t.points) :
                                   /\ t.points[j].frame = frame
                                   /\ t.points[j].xm_smooth # None}} :
             t \in {pr_tracks[n] : n \in {m \in 1..Len(pr_tracks) : pr_tracks[m].pid = pid}}}

PressPids == {pr_tracks[n].pid : n \in 1..Len(pr_tracks)}

PressFrameIds ==
    UNION {{pr_tracks[n].points[i].frame : i \in 1..Len(pr_tracks[n].points)} :
              n \in 1..Len(pr_tracks)}

IsPressing(frame, def_id, att_id) ==
    \E d \in SmoothedPoints(def_id, frame), a \in SmoothedPoints(att_id, frame) :
        /\ <<d.team, a.team>> \in {<<"A", "B">>, <<"B", "A">>}
        /\ RLt(Dist2(d.xm_smooth, d.ym_smooth, a.xm_smooth, a.ym_smooth),
               RSq(pressing_distance_m))
        /\ RLt(pressing_speed_threshold_ms, d.velocity)

C27_PressingCondition ==
    pr_pc = "done" =>
        /\ \A k \in 1..Len(pr_raw) : pr_raw[k].frame \in PressFrameIds
        /\ \A k \in 1..Len(pr_events) :
              IsPressing(pr_events[k].frame, pr_events[k].defender_id,
                         pr_events[k].attacker_id)
        /\ \A frame \in PressFrameIds, d \in PressPids, a \in PressPids :
              Cardinality({k \in 1..Len(pr_raw) :
                              /\ pr_raw[k].frame = frame
                              /\ pr_raw[k].defender_id = d
                              /\ pr_raw[k].attacker_id = a})
                  = IF IsPressing(frame, d, a) THEN 1 ELSE 0

C27_Witness ==
    /\ pr_pc = "done"
    /\ Len(pr_raw) >= 4
    /\ pr_events # <<>>
    /\ \E k \in 1..Len(pr_events) :
          pr_events[k].defender_id = 2 /\ pr_events[k].attacker_id = 1

(***************************************************************************)
(* Properties of HomographyTransform there and back, checked under         *)
(* RoundSpec.                                                              *)
(***************************************************************************)
\* C21 (homography round-trip): for every matrix H of WellConditioned and
\* every pixel point, HomographyTransform(H) can be built, and transforming
\* the point with it and then with the transform built from the inverse of
\* H gives the pixel point back.
GivesBack(c, v) == c[1] = FScale(c[2], v)

C21_RoundTrip ==
    /\ rt_pc # "raised"
    /\ rt_pc = "back" =>
          GivesBack(rt_back[1], rt_point[1]) /\ GivesBack(rt_back[2], rt_point[2])

(***************************************************************************)
(* More properties of _deduplicate_events, checked under DedupSpec.        *)
(***************************************************************************)
\* C33 (deduplication is idempotent and order-preserving): the output of
\* _deduplicate_events is sorted by timestamp, takes each of its events from
\* the input (no event more often than the input has it, and in the order
\* of the sorted input), starts with an earliest input event, and is
\* returned unchanged by a second _deduplicate_events.
RECURSIVE IsSubList(_, _)
IsSubList(sub, seq) ==
    IF sub = <<>> THEN TRUE
    ELSE IF seq = <<>> THEN FALSE
    ELSE IF Head(sub) = Head(seq) THEN IsSubList(Tail(sub), Tail(seq))
    ELSE IsSubList(sub, Tail(seq))

Occurrences(seq, e) == Cardinality({k \in 1..Len(seq) : seq[k] = e})

C33_DedupIdempotent ==
    [][(dpc = "raw" /\ dpc' = "done") =>
        /\ \A k \in 1..(Len(unique') - 1) :
              RLe(unique'[k].timestamp, unique'[k + 1].timestamp)
        /\ \A k \in 1..Len(unique') :
              Occurrences(unique', unique'[k]) <= Occurrences(events, unique'[k])
        /\ \A e \in PressingEvents : Occurrences(events', e) = Occurrences(events, e)
        /\ IsSubList(unique', events')
        /\ events # <<>> =>
              /\ unique' # <<>>
              /\ \A k \in 1..Len(events) : RLe(unique'[1].timestamp, events[k].timestamp)
        /\ events = <<>> => unique' = <<>>
        /\ _deduplicate_events(unique') = unique'
    ]_vars

C33_Witness ==
    /\ dpc = "done"
    /\ Len(events) = 3
    /\ Len(unique) = 2
    /\ unique[2] = events[3]
    /\ unique[1].defender_id # unique[2].defender_id

(***************************************************************************)
(* Properties of Track.features, checked under FeatSpec.                   *)
(***************************************************************************)
\* C39 (bounded embedding buffer): after any sequence of Track.update calls
\* the buffer holds at most max_features embeddings, and they are the most
\* recently added ones in insertion order: of n embeddings added so far it
\* holds the last min(n, max_features), oldest first.
C39_BoundedBuffer ==
    fb_pc = "live" =>
        /\ Len(fb_features) <= max_features
        /\ Len(fb_features) = IF fb_added < max_features THEN fb_added ELSE max_features
        /\ \A i \in 1..Len(fb_features) :
              fb_features[i] = <<fb_added - Len(fb_features) + i>>

C39_Witness ==
    /\ fb_added > max_features
    /\ Len(fb_features) = max_features
    /\ fb_features[1] = <<fb_added - max_features + 1>>
    /\ fb_features[1] # <<1>>

\* C36 (normalized degree centrality): for every non-empty list of passes
\* every player that appears as passer or receiver gets exactly one
\* centrality value, and that value lies between 0 and 1 inclusive.
Involved == {nw_passes[k][1] : k \in 1..Len(nw_passes)} \cup {nw_passes[k][2] : k \in 1..Len(nw_passes)}

CellOf(v, extent, n) ==
    CHOOSE c \in 0..(n - 1) :
        /\ c > 0 => RLe(Rat(c * extent), RMul(Rat(n), v))
        /\ c < n - 1 => RLt(RMul(Rat(n), v), Rat((c + 1) * extent))

C40_XThreatLookup ==
    /\ \A k \in 1..Len(xt_calls) :
          xt_calls[k].value =
              grid[CellOf(xt_calls[k].y, field_width, grid_rows) + 1]
                  [CellOf(xt_calls[k].x, field_length, grid_cols) + 1]
    /\ \A j \in 1..Len(xt_calls), k \in 1..Len(xt_calls) :
          (xt_calls[j].y = xt_calls[k].y /\ RLe(xt_calls[j].x, xt_calls[k].x))
              => xt_calls[j].value <= xt_calls[k].value

C40_Witness ==
    /\ Len(xt_calls) = 2
    /\ xt_calls[1].y = xt_calls[2].y
    /\ xt_calls[1].x = Rat(-5) /\ xt_calls[2].x = <<385, 4>>
    /\ xt_calls[1].value < xt_calls[2].value

(***************************************************************************)
(* Properties of compute_metrics, checked under MetricSpec.                *)
(***************************************************************************)
MetricTracks == {mt_tracks[i] : i \in 1..Len(mt_tracks)}

MetricPoints == UNION {{t.points[i] : i \in 1..Len(t.points)} : t \in MetricTracks}

\* C37: after compute_metrics(tracks, fps) a track is still present exactly
\* when its number of points is not below min_track_length_seconds * fps:
\* every track with fewer points than that product is removed and no other
\* track is removed.
C37_ShortTrackFilter ==
    mt_pc = "done" =>
        \A i \in 1..Len(mt_in) :
            (\E t \in MetricTracks : t.pid = mt_in[i].pid)
                <=> ~RLt(Rat(Len(mt_in[i].points)),
                         RMul(Rat(min_track_length_seconds), mt_fps))

\* C32: after the metrics pass every point of every remaining track has
\* 0 <= velocity <= max_speed_ms and -10 <= acceleration <= 10, the first
\* point of a track has velocity 0 and acceleration 0, and is_sprinting holds
\* exactly when velocity > sprint_threshold_ms.
C32_PhysicalBounds ==
    mt_pc = "done" =>
        /\ \A p \in MetricPoints :
              /\ RLe(Rat(0), p.velocity) /\ RLe(p.velocity, max_speed_ms)
              /\ RLe(Rat(0 - 10), p.acceleration) /\ RLe(p.acceleration, Rat(10))
              /\ p.is_sprinting <=> RLt(Rat(sprint_threshold_ms), p.velocity)
        /\ \A t \in MetricTracks :
              /\ t.points[1].velocity = Rat(0)
              /\ t.points[1].acceleration = Rat(0)

\* a processed track with a capped sprint, a step exactly at the sprint
\* threshold and a deceleration clipped at -10
C32_Witness ==
    /\ mt_pc = "done"
    /\ \E t \in MetricTracks : t.points[1].xm_smooth # None
    /\ \E p \in MetricPoints : p.is_sprinting /\ p.velocity = max_speed_ms
    /\ \E p \in MetricPoints : p.velocity = Rat(sprint_threshold_ms) /\ ~p.is_sprinting
    /\ \E p \in MetricPoints : p.acceleration = Rat(0 - 10)

(***************************************************************************)
(* The zero time-delta fallbacks, checked under VelSpec.                   *)
(***************************************************************************)
EqualTimestamps == {i \in 1..(Len(vtimes) - 1) : vtimes[i + 1] = vtimes[i]}

Finite(q) == q[2] > 0

\* C38: for a step between two points with equal timestamps
\* _compute_velocity uses the fallback dt 1/fps (velocity = distance x fps,
\* then the jump/gap filter and the speed cap), _compute_acceleration uses
\* its positive fallback dt, and every velocity and acceleration is finite.
C38_ZeroDeltaFallback ==
    vpc = "acc" =>
        /\ \A i \in EqualTimestamps :
              LET dist == RAbs(RSub(vcoords[i + 1][1], vcoords[i][1]))
                  dt == <<1, vfps>>
                  v == IF RLt(dist, Rat(max_distance_jump_m)) /\ RLt(dt, max_frame_gap_seconds)
                       THEN RMin(RMul(dist, Rat(vfps)), max_speed_ms)
                       ELSE Rat(0)
              IN  /\ velocity[i + 1] = v
                  /\ RLt(Rat(0), accel_fallback_dt)
                  /\ acceleration[i + 1]
                        = RClip(RDiv(RSub(velocity[i + 1], velocity[i]), accel_fallback_dt),
                                Rat(0 - max_acceleration), Rat(max_acceleration))
        /\ \A i \in 1..Len(velocity) : Finite(velocity[i]) /\ Finite(acceleration[i])

\* a step with equal timestamps whose velocity is distance x fps, below the cap
C38_Witness ==
    /\ vpc = "acc"
    /\ \E i \in EqualTimestamps :
          /\ RLt(Rat(0), velocity[i + 1])
          /\ RLt(velocity[i + 1], max_speed_ms)
          /\ acceleration[i + 1] # Rat(0)

(***************************************************************************)
(* Properties of parse_clips, checked under ClipSpec.                      *)
(***************************************************************************)
\* a clip with both fields numeric whose frame range is not empty
UsableClip(clip) ==
    /\ {"start", "end"} \subseteq DOMAIN clip
    /\ clip.start # None /\ clip.end # None
    /\ Max(0, int(RMul(clip.start, cl_fps))) < Min(cl_total, int(RMul(clip.end, cl_fps)))

C34_FallbackWitness ==
    /\ cl_pc = "done"
    /\ cl_data # <<>>
    /\ \A i \in 1..Len(cl_data) : ~UsableClip(cl_data[i])
    /\ cl_ranges = << <<0, cl_total>> >>

(***************************************************************************)
(* The capture of track_players, checked under JobSpec.                    *)
(***************************************************************************)
InTrackPlayers(pc) == pc \in {"range", "loop"}

\* C35: the capture opened by track_players is released on every exit from
\* it (normal return, also after a failed frame read, and an exception out
\* of the frame loop); it becomes released only at that exit, and while
\* track_players runs (and uses it) it is open.
C35_CaptureReleased ==
    [][/\ (InTrackPlayers(j_pc) /\ ~InTrackPlayers(j_pc'))
            => (j_cap = "open" /\ j_cap' = "released")
       /\ (j_cap # "released" /\ j_cap' = "released")
            => (InTrackPlayers(j_pc) /\ ~InTrackPlayers(j_pc'))
       /\ InTrackPlayers(j_pc') => j_cap' = "open"
       /\ j_pc' = "returned" => j_cap' = "released"]_vars

\* an exception left the frame loop after a frame had been processed
C35_Witness ==
    /\ j_pc = "failed"
    /\ j_cap = "released"
    /\ j_processed # <<>>

\* track_players returned although a frame read had failed
C35_FailedReadWitness ==
    /\ j_pc = "returned"
    /\ j_cap = "released"
    /\ \E i \in 1..Len(j_ranges) : \E f \in j_unreadable :
          j_ranges[i][1] <= f /\ f < j_ranges[i][2]

(***************************************************************************)
(* What a status request can see of a job, checked under ApiSpec.          *)
(***************************************************************************)
StatusMoves == {<<"queued", "processing">>, <<"processing", "completed">>,
                <<"processing", "failed">>}

\* C31: in every interleaving of the background thread with status
\* requests, a response that reports 'completed' carries the job's results
\* and progress 100 and one that reports 'failed' carries the error; the
\* status of a job only moves queued -> processing -> completed | failed,
\* and completed and failed are never left.
C31_StatusVisibility ==
    /\ [](\A i \in 1..Len(api_out) :
            /\ api_out[i].status = "completed"
                  => (api_out[i].results = Results /\ api_out[i].progress = 100)
            /\ api_out[i].status = "failed" => api_out[i].error = ErrorText)
    /\ [][(api_job # <<>> /\ api_job' # <<>> /\ api_job'[1].status # api_job[1].status)
            => <<api_job[1].status, api_job'[1].status>> \in StatusMoves]_vars
====
